---- MODULE Spec2Model ----
(***************************************************************************)
(* Model server of AgentFoundry (services/model-server): the artifact      *)
(* store, the training orchestrator, the dispatch of predict requests and  *)
(* the serving runtime that holds the live capability instances.           *)
(*                                                                         *)
(* A version name is a sequence of one-character strings, so that          *)
(* splitting at ".", parsing a component as an integer and formatting an   *)
(* integer are computed as the Python code computes them.                  *)
(***************************************************************************)
EXTENDS Integers, Sequences, FiniteSets, TLC

\* ------------------------------------------------------------------ bounds
\* Request slots: the requests that can be in flight at the same time.
MaxRequests == 2
\* Training runs accepted over a run of the model (a retrain-all request
\* is three runs).
MaxTrainRuns == 3

\* ------------------------------------------------------- version strings
Digits == <<"0", "1", "2", "3", "4", "5", "6", "7", "8", "9">>

IsDigit(c) == \E i \in 1..10 : Digits[i] = c

DigitVal(c) == (CHOOSE i \in 1..10 : Digits[i] = c) - 1

\* The value "None" of the code, where a version string is expected.
NoVersion == <<"None">>
\* The argument "latest" of load_model.
LATEST == <<"latest">>

V100 == <<"1", ".", "0", ".", "0">>

Front(s) == SubSeq(s, 1, Len(s) - 1)

Last(s) == s[Len(s)]

\* str.split("."): the components between the dots; "" splits to [""].
RECURSIVE split(_)
split(s) ==
    IF s = <<>> THEN << <<>> >>
    ELSE LET rest == split(Tail(s))
         IN  IF Head(s) = "."
             THEN << <<>> >> \o rest
             ELSE << <<Head(s)>> \o rest[1] >> \o Tail(rest)

\* ".".join(parts)
RECURSIVE join(_)
join(parts) ==
    IF Len(parts) = 1 THEN parts[1]
    ELSE parts[1] \o <<".">> \o join(Tail(parts))

\* Whether int(p) succeeds: an optional sign and then at least one digit
\* (whitespace and "_" are not in the alphabet of the model's names).
int_ok(p) ==
    LET body == IF Len(p) > 0 /\ p[1] \in {"-", "+"} THEN Tail(p) ELSE p
    IN  Len(body) > 0 /\ \A i \in 1..Len(body) : IsDigit(body[i])

RECURSIVE digits_value(_)
digits_value(s) ==
    IF s = <<>> THEN 0 ELSE 10 * digits_value(Front(s)) + DigitVal(Last(s))

\* int(p), where int_ok(p).
int_of(p) ==
    IF p[1] = "-" THEN 0 - digits_value(Tail(p))
    ELSE IF p[1] = "+" THEN digits_value(Tail(p))
    ELSE digits_value(p)

RECURSIVE nat_str(_)
nat_str(n) ==
    IF n < 10 THEN <<Digits[n + 1]>>
    ELSE nat_str(n \div 10) \o <<Digits[(n % 10) + 1]>>

\* str(n)
int_str(n) == IF n < 0 THEN <<"-">> \o nat_str(0 - n) ELSE nat_str(n)

\* _version_key: drop every "v", split at ".", each component as an
\* integer, 0 where int() raises ValueError.
version_key(v) ==
    LET parts == split(SelectSeq(v, LAMBDA c : c # "v"))
    IN  [i \in 1..Len(parts) |->
            IF int_ok(parts[i]) THEN int_of(parts[i]) ELSE 0]

\* Python's order of tuples of integers: a < b.
RECURSIVE tuple_less(_, _)
tuple_less(a, b) ==
    IF b = <<>> THEN FALSE
    ELSE IF a = <<>> THEN TRUE
    ELSE IF a[1] # b[1] THEN a[1] < b[1]
    ELSE tuple_less(Tail(a), Tail(b))

\* The characters of the model's version names in the order of their
\* code points.
Alphabet ==
    <<"+", "-", ".", "0", "1", "2", "3", "4", "5", "6", "7", "8", "9", "b", "v">>

code_point(c) == CHOOSE i \in 1..Len(Alphabet) : Alphabet[i] = c

\* Python's order of strings: a < b.
RECURSIVE str_less(_, _)
str_less(a, b) ==
    IF b = <<>> THEN FALSE
    ELSE IF a = <<>> THEN TRUE
    ELSE IF a[1] # b[1] THEN code_point(a[1]) < code_point(b[1])
    ELSE str_less(Tail(a), Tail(b))

\* _pick_latest as it would be if it compared the names as strings.
RECURSIVE pick_latest_as_strings(_)
pick_latest_as_strings(versions) ==
    IF Len(versions) = 1 THEN versions[1]
    ELSE LET best == pick_latest_as_strings(Front(versions))
         IN  IF str_less(best, Last(versions)) THEN Last(versions) ELSE best

\* max(versions, key=_version_key): the first element, in the order of
\* the list, whose key no other element exceeds.  versions is not empty.
RECURSIVE pick_latest(_)
pick_latest(versions) ==
    IF Len(versions) = 1 THEN versions[1]
    ELSE LET best == pick_latest(Front(versions))
         IN  IF tuple_less(version_key(best), version_key(Last(versions)))
             THEN Last(versions)
             ELSE best

\* _next_version as it would be if it returned a name whose final
\* component is not an integer as it is.
next_version_keeps_name(current) ==
    IF current = NoVersion THEN V100
    ELSE LET parts == split(current)
         IN  IF int_ok(Last(parts))
             THEN join([parts EXCEPT
                          ![Len(parts)] = int_str(int_of(Last(parts)) + 1)])
             ELSE current

\* _next_version (training.py and main.py hold the same code).
next_version(current) ==
    IF current = NoVersion THEN V100
    ELSE LET parts == split(current)
         IN  IF int_ok(Last(parts))
             THEN join([parts EXCEPT
                          ![Len(parts)] = int_str(int_of(Last(parts)) + 1)])
             ELSE V100

\* ------------------------------------------------- capability instances
CG == "compliance-gap"
RP == "regulatory-predictor"
DD == "drift-detector"
DO == "deployment-optimizer"
MS == "market-signal-predictor"
TC == "taxonomy-classifier"

\* The kinds whose live instance a train endpoint replaces, and all six.
Trainable == {CG, RP, DD}
Kinds == {CG, RP, DD, DO, MS, TC}

\* The class of the module-level instance of each kind (main.py).
ClassOf(k) ==
    CASE k = CG -> "ComplianceGapModel"
      [] k = RP -> "RegulatoryPredictor"
      [] k = DD -> "DriftDetector"
      [] k = DO -> "DeploymentOptimizer"
      [] k = MS -> "MarketSignalPredictor"
      [] k = TC -> "TaxonomyClassifier"

\* __init__ of a capability class.  oid is the identity of the new object;
\* made_by records the place that constructed it ("import": the module-level
\* default, "train": a training run, "load_model") and made_from the version
\* directory load_model read it from.  model is the fitted learner, 0 for
\* None; metrics is the metrics mapping, held as its training-sample count,
\* 0 for the empty mapping; stats says whether _means/_stds are set.
new_capability(cls, oid, made_by) ==
    [oid |-> oid, cls |-> cls, model |-> 0,
     is_loaded |-> cls \in {"DeploymentOptimizer", "MarketSignalPredictor",
                            "TaxonomyClassifier"},
     version |-> V100, metrics |-> 0, stats |-> FALSE,
     made_by |-> made_by, made_from |-> NoVersion]

\* No object (None) where an instance is expected.
NoInstance == new_capability("None", 0, "none")

\* train() as it would be if it left is_loaded as it found it.
capability_train_unflagged(inst, samples, fitted) ==
    IF fitted
    THEN [inst EXCEPT !.model = inst.oid, !.metrics = samples,
                      !.stats = (inst.cls = "DriftDetector")]
    ELSE [inst EXCEPT !.model = inst.oid]

\* train() of ComplianceGapModel, RegulatoryPredictor and DriftDetector.
\* The learner is created first and fitted next; is_loaded and metrics are
\* set only after the fit returned.  fitted = FALSE: fit() raised.
capability_train(inst, samples, fitted) ==
    IF fitted
    THEN [inst EXCEPT !.model = inst.oid, !.is_loaded = TRUE,
                      !.metrics = samples,
                      !.stats = (inst.cls = "DriftDetector")]
    ELSE [inst EXCEPT !.model = inst.oid]

\* ------------------------------------------------------- artifact store
\* metadata.json of a version directory: absent, corrupt (not a JSON
\* document: an empty or truncated file), or ok with its keys.
NoMeta ==
    [state |-> "absent", name |-> "", version |-> NoVersion, metrics |-> 0,
     model_class |-> ""]

CorruptMeta == [NoMeta EXCEPT !.state = "corrupt"]

\* A version directory: bin is model.joblib (0: no such file, -1: a
\* truncated file, else the learner it holds), stats is stats.joblib.
new_dir(ver) == [ver |-> ver, bin |-> 0, stats |-> FALSE, meta |-> NoMeta]

\* os.listdir(name_dir) restricted to directories, in the order of the
\* listing; store[name] is the sequence of version directories in that order.
versions_of(st, name) == [i \in 1..Len(st[name]) |-> st[name][i].ver]

dir_index(st, name, ver) ==
    IF \E i \in 1..Len(st[name]) : st[name][i].ver = ver
    THEN CHOOSE i \in 1..Len(st[name]) : st[name][i].ver = ver
    ELSE 0

\* get_latest_version as it would be if it took the first directory of the
\* listing.
get_latest_version_first_listed(st, name) ==
    IF Len(st[name]) = 0 THEN NoVersion
    ELSE versions_of(st, name)[1]

get_latest_version(st, name) ==
    IF Len(st[name]) = 0 THEN NoVersion
    ELSE pick_latest(versions_of(st, name))

\* The points at which save_model can raise an I/O error.
SaveFaults == {"none", "makedirs", "dump", "meta_write"}

\* save_model as it would be if save() wrote no model.joblib.
saved_dir_without_learner(d, model, name, version, metrics, fault) ==
    CASE fault = "dump" -> d
      [] fault = "meta_write" -> [d EXCEPT !.meta = CorruptMeta]
      [] fault = "none" ->
           [d EXCEPT !.meta =
               [state |-> "ok", name |-> name, version |-> version,
                metrics |-> metrics, model_class |-> model.cls]]

\* save() of a capability into directory d, then the metadata sidecar.
\*   makedirs   os.makedirs raised: nothing written
\*   dump       joblib.dump raised: model.joblib is left truncated
\*   meta_write json.dump raised: the sidecar is left truncated
saved_dir(d, model, name, version, metrics, fault) ==
    LET dumped == [d EXCEPT
                     !.bin = IF model.model # 0 THEN model.model ELSE @,
                     !.stats = IF model.cls = "DriftDetector" /\ model.stats
                               THEN TRUE ELSE @]
    IN  CASE fault = "dump" ->
               [d EXCEPT !.bin = IF model.model # 0 THEN -1 ELSE @]
          [] fault = "meta_write" -> [dumped EXCEPT !.meta = CorruptMeta]
          [] fault = "none" ->
               [dumped EXCEPT !.meta =
                   [state |-> "ok", name |-> name, version |-> version,
                    metrics |-> metrics, model_class |-> model.cls]]

\* The order of os.listdir is the file system's.  The code reads it only
\* through max(), which returns the first of the names of greatest key: the
\* place of a new directory matters only when its key equals the greatest
\* key of the listing, and then only whether it comes before or after.
placement_matters(st, name, version) ==
    /\ dir_index(st, name, version) = 0
    /\ Len(st[name]) > 0
    /\ version_key(version) = version_key(get_latest_version(st, name))

\* save_model: the store after the call.  os.makedirs(exist_ok=True) takes
\* an existing version directory as it is; a new one is listed first
\* (front) or last.
save_model(st, model, name, version, metrics, fault, front) ==
    LET i == dir_index(st, name, version)
    IN  IF fault = "makedirs" THEN st
        ELSE IF i # 0
        THEN [st EXCEPT ![name][i] =
                 saved_dir(@, model, name, version, metrics, fault)]
        ELSE [st EXCEPT ![name] =
                 LET d == saved_dir(new_dir(version), model, name, version,
                                    metrics, fault)
                 IN  IF front THEN <<d>> \o @ ELSE Append(@, d)]

\* load() of ComplianceGapModel and RegulatoryPredictor from directory d
\* (the only classes load_model constructs).
capability_load(inst, d) ==
    IF d.bin # 0
    THEN [inst EXCEPT !.model = d.bin, !.is_loaded = TRUE]
    ELSE inst

\* load_model as it would be if it opened metadata.json without testing
\* that the file exists.
load_model_unguarded(st, name, version, oid) ==
    LET ver == IF version = LATEST THEN get_latest_version(st, name)
               ELSE version
        i == dir_index(st, name, ver)
        d == st[name][i]
        made == [new_capability(d.meta.model_class, oid, "load_model")
                    EXCEPT !.made_from = ver]
    IN  IF ver = NoVersion \/ i = 0 THEN [out |-> "none", inst |-> NoInstance]
        ELSE IF d.meta.state \in {"absent", "corrupt"}
        THEN [out |-> "raise", inst |-> NoInstance]
        ELSE IF d.meta.model_class \notin
                    {"ComplianceGapModel", "RegulatoryPredictor"}
        THEN [out |-> "none", inst |-> NoInstance]
        ELSE IF d.bin = -1 THEN [out |-> "raise", inst |-> NoInstance]
        ELSE [out |-> "model", inst |-> capability_load(made, d)]

\* load_model: out is "none" (None returned), "raise" (an exception leaves
\* the call) or "model" (inst returned).  oid is the identity the object
\* gets if one is constructed.
load_model(st, name, version, oid) ==
    LET ver == IF version = LATEST THEN get_latest_version(st, name)
               ELSE version
        i == dir_index(st, name, ver)
        d == st[name][i]
        made == [new_capability(d.meta.model_class, oid, "load_model")
                    EXCEPT !.made_from = ver]
    IN  IF ver = NoVersion \/ i = 0 THEN [out |-> "none", inst |-> NoInstance]
        ELSE IF d.meta.state = "absent"
        THEN [out |-> "none", inst |-> NoInstance]
        ELSE IF d.meta.state = "corrupt"
        THEN [out |-> "raise", inst |-> NoInstance]
        ELSE IF d.meta.model_class \notin
                    {"ComplianceGapModel", "RegulatoryPredictor"}
        THEN [out |-> "none", inst |-> NoInstance]
        ELSE IF d.bin = -1 THEN [out |-> "raise", inst |-> NoInstance]
        ELSE [out |-> "model", inst |-> capability_load(made, d)]

\* sorted(names)
RECURSIVE sorted(_)
sorted(names) ==
    IF names = <<>> THEN <<>>
    ELSE LET least == CHOOSE i \in 1..Len(names) :
                        \A j \in 1..Len(names) : ~str_less(names[j], names[i])
         IN  <<names[least]>>
             \o sorted(SubSeq(names, 1, least - 1)
                       \o SubSeq(names, least + 1, Len(names)))

\* One entry of a report (health, metrics, listing); the keys an endpoint
\* does not return keep the values given here.  metrics -1 is None.
report_entry(name) ==
    [name |-> name, is_loaded |-> FALSE, version |-> NoVersion,
     metrics |-> -1, versions |-> <<>>]

\* list_models: the names in sorted order (sorted(os.listdir(model_dir))),
\* for each name with a version its versions in sorted order, the latest
\* of them and the metrics of its sidecar (None without a sidecar).
\* json.load raises on a corrupt sidecar: out is "raise".
list_models(st) ==
    LET names == SelectSeq(<<CG, DD, RP>>, LAMBDA n : Len(st[n]) > 0)
        versions(n) == sorted(versions_of(st, n))
        latest(n) == pick_latest(versions(n))
        meta(n) == st[n][dir_index(st, n, latest(n))].meta
    IN  IF \E i \in 1..Len(names) : meta(names[i]).state = "corrupt"
        THEN [out |-> "raise", entries |-> <<>>]
        ELSE [out |-> "ok",
              entries |->
                [i \in 1..Len(names) |->
                    [report_entry(names[i]) EXCEPT
                        !.versions = versions(names[i]),
                        !.version = latest(names[i]),
                        !.metrics = IF meta(names[i]).state = "ok"
                                    THEN meta(names[i]).metrics ELSE -1]]]

\* -------------------------------------------------- deployment optimizer
\* Numbers are held in fixed point: CPU cores in hundredths (the genes are
\* rounded to two decimals), memory in whole MB (rounded to none), fitness
\* in ten-thousandths (the precision of the reported score).
POPULATION_SIZE == 50
GENERATIONS == 100

\* MUTATION_RATE = 0.1, as numerator and denominator.
MUTATION_RATE == <<1, 10>>

\* random.Random(42).  The generator is a function of its seed; what the
\* model keeps of it is a linear congruential stream of RngModulus values
\* of full period, longer than the draws of one call to optimize.
RngModulus == 65536
RngMultiplier == 11221
RngIncrement == 13849
RngSeed == 42

\* random.Random(RngSeed)
seeded == [s |-> RngSeed % RngModulus]

\* The generator after one draw; the draw is rng_next(g).s / RngModulus.
rng_next(g) == [s |-> (RngMultiplier * g.s + RngIncrement) % RngModulus]

\* round(x): num / den to the nearest integer, for num, den > 0.
round_div(num, den) == (2 * num + den) \div (2 * den)

\* rng.uniform(a, b) = a + (b - a) * random(), rounded to the unit of the
\* arguments; draw is the state after the draw.  b below a is allowed.
uniform(draw, a, b) ==
    IF b >= a THEN a + round_div((b - a) * draw, RngModulus)
    ELSE a - round_div((a - b) * draw, RngModulus)

\* rng.randint(lo, hi)
randint(draw, lo, hi) == lo + ((hi - lo + 1) * draw) \div RngModulus

\* rng.choice(seq)
choice(draw, seq) == seq[1 + (Len(seq) * draw) \div RngModulus]

\* rng.random() < num / den
below(draw, rate) == rate[2] * draw < rate[1] * RngModulus

BatchSizes == <<8, 16, 32, 64>>

Max2(a, b) == IF a >= b THEN a ELSE b

\* A range of replicas that reaches one past the number of agents.
replicas_top_plus_one(c) == Max2(c.agent_count, 1) + 1

\* The upper ends of the sampling ranges of cpu_per_agent (hundredths) and
\* memory_per_agent, and of replicas.
cpu_top(c) == c.max_cpu \div Max2(c.agent_count, 1)
memory_top(c) == c.max_memory \div Max2(c.agent_count, 1)
replicas_top(c) == Max2(c.agent_count, 1)

\* One gene drawn anew, as _init_population and _mutate draw it.
draw_gene(gene, draw, c) ==
    CASE gene = "cpu_per_agent" -> uniform(draw, 25, cpu_top(c))
      [] gene = "memory_per_agent" -> uniform(draw, 256, memory_top(c))
      [] gene = "replicas" -> randint(draw, 1, replicas_top(c))
      [] gene = "batch_size" -> choice(draw, BatchSizes)
      [] gene = "concurrency" -> randint(draw, 1, 10)

\* The keys of a config in the order of the dict.
Genes ==
    <<"cpu_per_agent", "memory_per_agent", "replicas", "batch_size",
      "concurrency">>

\* _init_population: n configs, five draws each, one config after another
\* on the one generator.  The value is [pop, rng].
RECURSIVE init_population(_, _, _)
init_population(n, g, c) ==
    IF n = 0 THEN [pop |-> <<>>, rng |-> g]
    ELSE IF n = 1
    THEN LET g1 == rng_next(g)
             g2 == rng_next(g1)
             g3 == rng_next(g2)
             g4 == rng_next(g3)
             g5 == rng_next(g4)
             ind == [cpu_per_agent |-> draw_gene("cpu_per_agent", g1.s, c),
                     memory_per_agent |->
                         draw_gene("memory_per_agent", g2.s, c),
                     replicas |-> draw_gene("replicas", g3.s, c),
                     batch_size |-> draw_gene("batch_size", g4.s, c),
                     concurrency |-> draw_gene("concurrency", g5.s, c)]
         IN  [pop |-> <<ind>>, rng |-> g5]
    ELSE LET first == init_population(n \div 2, g, c)
             rest == init_population(n - n \div 2, first.rng, c)
         IN  [pop |-> first.pop \o rest.pop, rng |-> rest.rng]

\* Whether a config fits the constraints (the test of _fitness).
feasible(config, c) ==
    /\ config.cpu_per_agent * config.replicas <= c.max_cpu
    /\ config.memory_per_agent * config.replicas <= c.max_memory

\* _fitness, in ten-thousandths: -1000 for a config that does not fit,
\* else throughput * resource_efficiency - latency_penalty.
\*   throughput = cpu_per_agent * concurrency * replicas
\*   efficiency = 1 - cpu / max(max_cpu, 1) * 0.3
\*   latency    = max(10, target / max(memory / 1024, 0.1)
\*                              / max(batch / 16, 0.5))
\*   penalty    = max(0, latency - target) * 0.5
fitness(config, c) ==
    IF ~feasible(config, c) THEN -10000000
    ELSE LET cpu == config.cpu_per_agent * config.replicas
             cap == Max2(c.max_cpu, 100)
             gain == (cpu * config.concurrency * (10 * cap - 3 * cpu))
                        \div (10 * cap)
             scaled == (163840 \div config.batch_size) * c.target_latency
             floor == Max2(10 * config.memory_per_agent, 1024)
             latency == Max2(1000,
                           (scaled \div floor) * 100
                              + ((scaled % floor) * 100) \div floor)
             penalty == Max2(0, latency - 100 * c.target_latency) * 50
         IN  100 * gain - penalty

\* [(ind, _fitness(ind)) for ind in population]
RECURSIVE evaluate(_, _)
evaluate(pop, c) ==
    IF pop = <<>> THEN <<>>
    ELSE IF Len(pop) = 1 THEN << <<pop[1], fitness(pop[1], c)>> >>
    ELSE evaluate(SubSeq(pop, 1, Len(pop) \div 2), c)
            \o evaluate(SubSeq(pop, Len(pop) \div 2 + 1, Len(pop)), c)

\* list.sort(key=lambda x: x[1], reverse=True) over such pairs: the sort
\* is stable, so pairs of equal fitness keep the order they had.  The
\* place of pair i is one more than the number of pairs that come before.
place_scored(pairs, i) ==
    1 + Cardinality({j \in 1..Len(pairs) :
                        \/ pairs[j][2] > pairs[i][2]
                        \/ pairs[j][2] = pairs[i][2] /\ j < i})

sort_scored(pairs) ==
    LET n == Len(pairs)
        places == {<<place_scored(pairs, i), i>> : i \in 1..n}
    IN  SubSeq([r \in 1..n |-> pairs[(CHOOSE p \in places : p[1] = r)[2]]],
               1, n)

\* The configs of the first n pairs.
configs_of(pairs, n) == SubSeq([i \in 1..n |-> pairs[i][1]], 1, n)

\* _crossover: a new config, each gene from p1 or p2 on one draw.  The
\* value is [child, rng].
RECURSIVE crossover(_, _, _, _)
crossover(k, g, p1, p2) ==
    IF k = 0 THEN [child |-> p1, rng |-> g]
    ELSE LET before == crossover(k - 1, g, p1, p2)
             g1 == rng_next(before.rng)
             gene == Genes[k]
             from == IF below(g1.s, <<1, 2>>) THEN p1 ELSE p2
         IN  [child |-> [before.child EXCEPT ![gene] = from[gene]],
              rng |-> g1]

\* _mutate: each gene is drawn anew with probability MUTATION_RATE; a
\* second draw gives the new value.  The value is [child, rng].
RECURSIVE mutate(_, _, _, _)
mutate(k, g, config, c) ==
    IF k = 0 THEN [child |-> config, rng |-> g]
    ELSE LET before == mutate(k - 1, g, config, c)
             g1 == rng_next(before.rng)
             g2 == rng_next(g1)
             gene == Genes[k]
         IN  IF below(g1.s, MUTATION_RATE)
             THEN [child |-> [before.child EXCEPT
                                 ![gene] = draw_gene(gene, g2.s, c)],
                   rng |-> g2]
             ELSE [child |-> before.child, rng |-> g1]

\* The loop that breeds n children from the survivors, one child after
\* another on the one generator.  The value is [pop, rng].
RECURSIVE breed(_, _, _, _)
breed(n, g, survivors, c) ==
    IF n = 0 THEN [pop |-> <<>>, rng |-> g]
    ELSE IF n = 1
    THEN LET g1 == rng_next(g)
             g2 == rng_next(g1)
             p1 == choice(g1.s, survivors)
             p2 == choice(g2.s, survivors)
             crossed == crossover(Len(Genes), g2, p1, p2)
             mutated == mutate(Len(Genes), crossed.rng, crossed.child, c)
         IN  [pop |-> <<mutated.child>>, rng |-> mutated.rng]
    ELSE LET first == breed(n \div 2, g, survivors, c)
             rest == breed(n - n \div 2, first.rng, survivors, c)
         IN  [pop |-> first.pop \o rest.pop, rng |-> rest.rng]

\* float("-inf"), below every fitness.
NegInf == -2000000000

NoConfig == [cpu_per_agent |-> 0]

\* The locals of optimize before the first generation.
begin_optimize(c, g) ==
    LET start == init_population(POPULATION_SIZE, g, c)
    IN  [constraints |-> c, population |-> start.pop, rng |-> start.rng,
         best_individual |-> NoConfig, best_fitness |-> NegInf,
         generations_run |-> 0]

\* A loop that ends early, once a population brings no higher fitness.
highest(pop, c) ==
    CHOOSE f \in {fitness(pop[i], c) : i \in 1..Len(pop)} :
        \A i \in 1..Len(pop) : fitness(pop[i], c) <= f

loop_continues_while_improving(o) ==
    /\ o.generations_run < GENERATIONS
    /\ highest(o.population, o.constraints) > o.best_fitness

\* for gen in range(self.GENERATIONS): whether the loop has a pass left.
loop_continues(o) == o.generations_run < GENERATIONS

\* A pass that records as best the candidate at the head of the
\* population as it was before the ranking.
generation_recording_unranked(o) ==
    LET c == o.constraints
        scored == sort_scored(evaluate(o.population, c))
        survivors == configs_of(scored, Len(scored) \div 2)
        children == breed(POPULATION_SIZE - Len(survivors), o.rng,
                          survivors, c)
        better == scored[1][2] > o.best_fitness
    IN  [o EXCEPT !.generations_run = @ + 1,
                  !.best_individual = IF better THEN o.population[1] ELSE @,
                  !.best_fitness = IF better THEN scored[1][2] ELSE @,
                  !.population = survivors \o children.pop,
                  !.rng = children.rng]

\* One pass of the loop body of optimize over the locals.
generation(o) ==
    LET c == o.constraints
        scored == sort_scored(evaluate(o.population, c))
        survivors == configs_of(scored, Len(scored) \div 2)
        children == breed(POPULATION_SIZE - Len(survivors), o.rng,
                          survivors, c)
        better == scored[1][2] > o.best_fitness
    IN  [o EXCEPT !.generations_run = @ + 1,
                  !.best_individual = IF better THEN scored[1][1] ELSE @,
                  !.best_fitness = IF better THEN scored[1][2] ELSE @,
                  !.population = survivors \o children.pop,
                  !.rng = children.rng]

\* What optimize returns after the loop.
optimize_result(o) ==
    LET final_scored == sort_scored(evaluate(o.population, o.constraints))
        upto == IF Len(final_scored) < 4 THEN Len(final_scored) ELSE 4
    IN  [recommended_config |->
             IF o.best_individual = NoConfig THEN final_scored[1][1]
             ELSE o.best_individual,
         fitness_score |-> o.best_fitness,
         generations |-> o.generations_run,
         alternatives |->
             [i \in 1..(upto - 1) |->
                 [config |-> final_scored[i + 1][1],
                  fitness_score |-> final_scored[i + 1][2]]]]

\* The value of opt while no call of optimize is followed.
NoOptimizer == [call |-> <<>>]

\* The value of fb while no call of predict_fallback is followed.
NoFallbackCalls == [input |-> <<>>]

\* ------------------------------------------------------- serving state
VARIABLES
    store,      \* the artifact tree: [Trainable -> sequence of version dirs]
    live,       \* the module-level instances of main.py: [Kinds -> instance]
    phase,      \* "startup", "serving" or "startup_failed"
    req,        \* the request slots: [Reqs -> request]
    running,    \* the slot whose coroutine holds the event loop, 0 if none
    accepted,   \* training runs accepted so far
    opt,        \* the calls of DeploymentOptimizer.optimize (see below)
    fb          \* the calls of ComplianceGapModel.predict_fallback (see below)

vars == <<store, live, phase, req, running, accepted, opt, fb>>

Reqs == 1..MaxRequests

\* The response of a predict request.  decided_by, computed_by and
\* version_of are the identities of the objects that the handler's reads
\* of the module-level reference returned (0: no such read was made);
\* live_is_loaded is the is_loaded flag of the instance that dispatched.
NoResponse ==
    [status |-> "none", path |-> "none", result |-> <<>>,
     model_version |-> NoVersion, decided_by |-> 0, computed_by |-> 0,
     version_of |-> 0, live_is_loaded |-> FALSE, learner_called |-> FALSE,
     learner_raised |-> FALSE]

\* A request slot.  chain holds the kinds a train or retrain-all request
\* still has to train, results the outcome of each finished run; model and
\* version are the locals of the run in progress, and input says where its
\* rows came from ("extracted" or "synthetic").
IdleRequest ==
    [kind |-> "idle", k |-> "", pc |-> "idle", input |-> "",
     chain |-> <<>>, results |-> <<>>, model |-> NoInstance,
     version |-> NoVersion, resp |-> NoResponse, report |-> <<>>]

\* The await points as they would be if the predict handlers also yielded
\* the event loop between their reads of the module-level reference.
AwaitPoints_in_predict == {"extract", "p_trained", "p_fallback", "p_respond"}

\* The places where a handler awaits something that suspends it: the
\* database call inside extract_compliance_data / extract_regulatory_data.
\* Every other statement of a handler runs without yielding the event loop.
AwaitPoints == {"extract"}

\* A new request can start in slot r: the loop is free and r is the first
\* free slot.
Free(r) ==
    /\ phase = "serving"
    /\ running = 0
    /\ req[r].pc = "idle"
    /\ \A q \in 1..(r - 1) : req[q].pc # "idle"

\* The coroutine of slot r can take its next step: it holds the loop, or
\* the loop is free and what it awaits has completed.
Scheduled(r) ==
    /\ phase = "serving"
    /\ \/ running = r
       \/ running = 0 /\ req[r].pc \in AwaitPoints

\* Who holds the loop after slot r moved to pc.
holder(r, pc) == IF pc \in AwaitPoints THEN 0 ELSE r

\* Object identity.  The identities in use are those of the objects some
\* reference of the state still reaches; a new object gets the least
\* identity not in use.
RECURSIVE least_free(_, _)
least_free(used, n) == IF n \in used THEN least_free(used, n + 1) ELSE n

instance_ids(inst) == {inst.oid, inst.model}

used_ids(st, lv, rq) ==
    UNION {instance_ids(lv[k]) : k \in Kinds}
    \cup UNION {{st[n][i].bin : i \in 1..Len(st[n])} : n \in Trainable}
    \cup UNION {instance_ids(rq[r].model)
                  \cup {rq[r].resp.decided_by, rq[r].resp.computed_by,
                        rq[r].resp.version_of}
                  \cup UNION {instance_ids(rq[r].results[i].published)
                                \cup {rq[r].results[i].trained}
                              : i \in 1..Len(rq[r].results)}
                : r \in Reqs}

new_oid == least_free(used_ids(store, live, req), 1)

\* ---------------------------------------------------------------- startup
complete_dir(k, ver, learner, samples) ==
    [ver |-> ver, bin |-> learner, stats |-> (k = DD),
     meta |-> [state |-> "ok", name |-> k, version |-> ver,
               metrics |-> samples, model_class |-> ClassOf(k)]]

V101 == <<"1", ".", "0", ".", "1">>

V20b == <<"2", ".", "0", ".", "b">>

V090 == <<"0", ".", "9", ".", "0">>

\* The artifact trees the process may find when it starts: nothing; one
\* version; directories an operator made by hand, one whose sidecar has no
\* "model_class" key and one whose final version component is not an
\* integer; a version whose save_model was cut short by an I/O error while
\* the sidecar was written (what TrainPersist with fault "meta_write"
\* leaves behind).
InitialListings(k) ==
    << <<>>,
       <<complete_dir(k, V100, 7, 160)>>,
       <<[complete_dir(k, V090, 9, 160) EXCEPT !.meta.model_class = ""],
         complete_dir(k, V100, 7, 160), complete_dir(k, V20b, 8, 160)>>,
       <<complete_dir(k, V100, 7, 160),
         [complete_dir(k, V101, 8, 160) EXCEPT !.meta = CorruptMeta]>> >>

DefaultLive ==
    [k \in Kinds |->
        new_capability(ClassOf(k),
            CASE k = CG -> 1 [] k = RP -> 2 [] k = DD -> 3
              [] k = DO -> 4 [] k = MS -> 5 [] k = TC -> 6,
            "import")]

Init ==
    /\ \E shape \in 1..4 : store = [k \in Trainable |-> InitialListings(k)[shape]]
    /\ live = DefaultLive
    /\ phase = "startup"
    /\ req = [r \in Reqs |-> IdleRequest]
    /\ running = 0
    /\ accepted = 0
    /\ opt = NoOptimizer
    /\ fb = NoFallbackCalls

\* lifespan: load_model(name, "latest") for the three names in turn; a
\* result of the expected class replaces the default instance.  An
\* exception out of load_model leaves lifespan, and the application does
\* not start.  The value is the state reached: [live, failed].
RECURSIVE lifespan(_, _, _)
lifespan(st, lv, names) ==
    IF names = <<>> THEN [live |-> lv, failed |-> FALSE]
    ELSE LET k == Head(names)
             oid == least_free(used_ids(st, lv, [r \in Reqs |-> IdleRequest]), 1)
             loaded == load_model(st, k, LATEST, oid)
         IN  IF loaded.out = "raise"
             THEN [live |-> lv, failed |-> TRUE]
             ELSE lifespan(st,
                     IF loaded.out = "model" /\ loaded.inst.cls = ClassOf(k)
                     THEN [lv EXCEPT ![k] = loaded.inst] ELSE lv,
                     Tail(names))

Hydrate ==
    /\ phase = "startup"
    /\ LET done == lifespan(store, live, <<CG, RP, DD>>)
       IN  /\ live' = done.live
           /\ phase' = IF done.failed THEN "startup_failed" ELSE "serving"
    /\ UNCHANGED <<fb, opt, store, req, running, accepted>>

\* The handler returned: the response leaves and the slot is free again.
Return(r) ==
    /\ running = r
    /\ req[r].pc = "done"
    /\ req' = [req EXCEPT ![r] = IdleRequest]
    /\ running' = 0
    /\ UNCHANGED <<fb, opt, store, live, phase, accepted>>

\* ---------------------------------------------------------------- predict
\* The inputs of a predict request: an empty list (compliance_data,
\* regulation_ids) or empty metrics, and a document with content.
PredictInputs == {"empty", "records"}

\* The metrics document of a drift-analysis request.
DriftInputs == {"metrics"}

\* predict_fallback / detect_fallback of instance inst: a function of the
\* input, and for the drift detector of whether inst holds statistics.
fallback_result(k, inst, input) ==
    IF k \in {CG, RP} /\ input = "empty" THEN <<>>
    ELSE <<"fallback", k, input, k = DD /\ inst.stats>>

\* What the fitted learner of inst predicts for the input.
trained_result(k, inst, input) == <<"trained", k, input, inst.model>>

\* predict_compliance_gaps / predict_regulatory_changes, from the start of
\* the handler to the branch on is_loaded.  An empty input returns at once.
PredictBegin(r, k, input) ==
    /\ Free(r)
    /\ k \in {CG, RP}
    /\ LET pc == IF input = "empty" THEN "done"
                 ELSE IF live[k].is_loaded THEN "p_trained" ELSE "p_fallback"
           first == [IdleRequest EXCEPT !.kind = "predict", !.k = k,
                                        !.input = input, !.pc = pc]
       IN  /\ req' = [req EXCEPT ![r] =
                 IF input = "empty"
                 THEN [first EXCEPT !.resp =
                         [NoResponse EXCEPT !.status = "ok", !.path = "empty",
                            !.model_version = live[k].version,
                            !.version_of = live[k].oid]]
                 ELSE [first EXCEPT !.resp =
                         [NoResponse EXCEPT !.decided_by = live[k].oid,
                            !.live_is_loaded = live[k].is_loaded]]]
           /\ running' = holder(r, pc)
    /\ UNCHANGED <<fb, opt, store, live, phase, accepted>>

\* PredictCompute as it would be if the exception handler marked the live
\* instance as not loaded before running the fallback.
PredictCompute_unloading(r, raises) ==
    /\ Scheduled(r)
    /\ req[r].pc \in {"p_trained", "p_fallback"}
    /\ req[r].pc = "p_fallback" => ~raises
    /\ LET k == req[r].k
           inst == live[k]
           trained == req[r].pc = "p_trained"
           failed == trained /\ (raises \/ inst.model = 0)
       IN  /\ req' = [req EXCEPT ![r].pc = "p_respond",
                        ![r].resp.computed_by = inst.oid,
                        ![r].resp.learner_called = trained /\ inst.model # 0,
                        ![r].resp.learner_raised = failed,
                        ![r].resp.path =
                            IF trained /\ ~failed THEN "trained"
                            ELSE "fallback",
                        ![r].resp.result =
                            IF trained /\ ~failed
                            THEN trained_result(k, inst, req[r].input)
                            ELSE fallback_result(k, inst, req[r].input)]
           /\ live' = IF failed THEN [live EXCEPT ![k].is_loaded = FALSE]
                      ELSE live
    /\ running' = holder(r, "p_respond")
    /\ UNCHANGED <<fb, opt, store, phase, accepted>>

\* The branch taken: the trained model inside try/except Exception, whose
\* handler runs predict_fallback, or predict_fallback directly.  raises:
\* feature extraction or the learner raised.  predict() itself raises
\* RuntimeError when the instance holds no learner.
PredictCompute(r, raises) ==
    /\ Scheduled(r)
    /\ req[r].pc \in {"p_trained", "p_fallback"}
    /\ req[r].pc = "p_fallback" => ~raises
    /\ LET k == req[r].k
           inst == live[k]
           trained == req[r].pc = "p_trained"
           called == trained /\ inst.model # 0
           failed == trained /\ (raises \/ inst.model = 0)
       IN  req' = [req EXCEPT ![r].pc = "p_respond",
                     ![r].resp.computed_by = inst.oid,
                     ![r].resp.learner_called = called,
                     ![r].resp.learner_raised = failed,
                     ![r].resp.path =
                         IF trained /\ ~failed THEN "trained" ELSE "fallback",
                     ![r].resp.result =
                         IF trained /\ ~failed
                         THEN trained_result(k, inst, req[r].input)
                         ELSE fallback_result(k, inst, req[r].input)]
    /\ running' = holder(r, "p_respond")
    /\ UNCHANGED <<fb, opt, store, live, phase, accepted>>

\* The response is built: model_version is read from the module-level
\* reference.
PredictRespond(r) ==
    /\ Scheduled(r)
    /\ req[r].pc = "p_respond"
    /\ req' = [req EXCEPT ![r].pc = "done",
                 ![r].resp.status = "ok",
                 ![r].resp.model_version = live[req[r].k].version,
                 ![r].resp.version_of = live[req[r].k].oid]
    /\ running' = holder(r, "done")
    /\ UNCHANGED <<fb, opt, store, live, phase, accepted>>

\* predict_drift_analysis up to the return of _drift_detector.detect():
\* detect() branches on self.model is None and has no exception handler,
\* and neither has the endpoint.  raises: the learner raised.
DriftDetect(r, input, raises) ==
    /\ Free(r)
    /\ LET inst == live[DD]
           called == inst.model # 0
           failed == called /\ raises
           pc == IF failed THEN "done" ELSE "p_respond"
       IN  /\ ~called => ~raises
           /\ req' = [req EXCEPT ![r] =
                 [IdleRequest EXCEPT !.kind = "predict", !.k = DD,
                    !.input = input, !.pc = pc,
                    !.resp = [NoResponse EXCEPT
                        !.status = IF failed THEN "error" ELSE "none",
                        !.decided_by = inst.oid,
                        !.computed_by = inst.oid,
                        !.live_is_loaded = inst.is_loaded,
                        !.learner_called = called,
                        !.learner_raised = failed,
                        !.path = IF called THEN "trained" ELSE "fallback",
                        !.result =
                            IF failed THEN <<>>
                            ELSE IF called
                            THEN trained_result(DD, inst, input)
                            ELSE fallback_result(DD, inst, input)]]]
           /\ running' = holder(r, pc)
    /\ UNCHANGED <<fb, opt, store, live, phase, accepted>>

\* --------------------------------------------------------------- training
\* What extraction returns: no rows (an empty table, or the database is
\* unreachable and the exception is swallowed), or some rows.
ExtractRows == {0, 200}

\* _generate_synthetic_compliance_data(200) / ..._regulatory_data(200), and
\* n = 200 of train_drift_detector.
SyntheticRows == 200

\* The run of a train or retrain-all request that is finished is recorded
\* and the next kind of the chain, if any, is started: the train handlers
\* of compliance-gap and regulatory-predictor await the extraction first,
\* train_drift_detector awaits nothing.
first_pc(chain) ==
    IF chain = <<>> THEN "done"
    ELSE IF Head(chain) = DD THEN "drift_fit" ELSE "extract"

\* The outcome of one run: status "success" (the handler returned) or
\* "failed" (HTTP 500 / the failed entry of retrain_all).  trained is the
\* identity of the instance train() ran on and published the instance the
\* run assigned to the module-level reference (NoInstance: none).
run_result(k, status, version, metrics, trained, published) ==
    [model_name |-> k, status |-> status, version |-> version,
     metrics |-> metrics, trained |-> trained, published |-> published]

\* The end of a run as it would be if a failed run ended the request.
finish_run_aborting(rq, result) ==
    LET rest == IF result.status = "failed" THEN <<>> ELSE Tail(rq.chain)
    IN  [rq EXCEPT !.results = Append(@, result),
                   !.chain = rest,
                   !.pc = first_pc(rest),
                   !.input = "",
                   !.model = NoInstance,
                   !.version = NoVersion]

finish_run(rq, result) ==
    [rq EXCEPT !.results = Append(@, result),
               !.chain = Tail(@),
               !.pc = first_pc(Tail(rq.chain)),
               !.input = "",
               !.model = NoInstance,
               !.version = NoVersion]

\* The response of retrain_all_models: the entries in the order they were
\* appended, and their number.
retrain_all_response(rq) ==
    [results |-> [i \in 1..Len(rq.results) |->
                    [model_name |-> rq.results[i].model_name,
                     status |-> rq.results[i].status]],
     total_models |-> Len(rq.results)]

\* POST /train/<kind> (one kind) and POST /retrain/all (the three kinds in
\* the order of the code).
TrainChains == {<<CG>>, <<RP>>, <<DD>>, <<CG, RP, DD>>}

TrainBegin(r, chain) ==
    /\ Free(r)
    /\ accepted + Len(chain) <= MaxTrainRuns
    /\ accepted' = accepted + Len(chain)
    /\ req' = [req EXCEPT ![r] =
          [IdleRequest EXCEPT
              !.kind = IF Len(chain) = 1 THEN "train" ELSE "retrain_all",
              !.chain = chain, !.pc = first_pc(chain)]]
    /\ running' = holder(r, first_pc(chain))
    /\ UNCHANGED <<fb, opt, store, live, phase>>

\* TrainFit as it would be if the orchestrator trained the module-level
\* instance in place instead of constructing a new one.
TrainFit_in_place(r, rows, fitted) ==
    /\ Scheduled(r)
    /\ req[r].pc = "extract"
    /\ rows = 0 => fitted
    /\ LET k == Head(req[r].chain)
           model == capability_train(live[k],
                        IF rows = 0 THEN SyntheticRows ELSE rows, fitted)
           rq == IF fitted
                 THEN [req[r] EXCEPT !.pc = "persist", !.model = model]
                 ELSE finish_run(req[r],
                        run_result(k, "failed", NoVersion, 0, model.oid,
                                   NoInstance))
       IN  /\ req' = [req EXCEPT ![r] = rq]
           /\ live' = [live EXCEPT ![k] = model]
           /\ running' = holder(r, rq.pc)
    /\ UNCHANGED <<fb, opt, store, phase, accepted>>

\* TrainFit as it would be without the bootstrap: the rows of the
\* extraction are trained on as they are, and train() raises on no rows.
TrainFit_no_bootstrap(r, rows, fitted) ==
    /\ Scheduled(r)
    /\ req[r].pc = "extract"
    /\ rows = 0 => ~fitted
    /\ LET k == Head(req[r].chain)
           source == IF rows = 0 THEN "synthetic" ELSE "extracted"
           model == capability_train(
                        new_capability(ClassOf(k), new_oid, "train"),
                        rows, fitted)
           rq == IF fitted
                 THEN [req[r] EXCEPT !.pc = "persist", !.model = model,
                         !.input = source]
                 ELSE [finish_run(req[r],
                         run_result(k, "failed", NoVersion, 0, model.oid,
                                    NoInstance))
                       EXCEPT !.input = source]
       IN  /\ req' = [req EXCEPT ![r] = rq]
           /\ running' = holder(r, rq.pc)
    /\ UNCHANGED <<fb, opt, store, live, phase, accepted>>

\* train_compliance_gap_model / train_regulatory_predictor from the return
\* of the extraction to the return of model.train(): bootstrap on no rows,
\* transform, a new instance, train.  fitted = FALSE: transform or train
\* raised, which the synthetic rows never cause.  input keeps where the
\* rows came from, after a failure until the next run of the request ends.
TrainFit(r, rows, fitted) ==
    /\ Scheduled(r)
    /\ req[r].pc = "extract"
    /\ rows = 0 => fitted
    /\ LET k == Head(req[r].chain)
           source == IF rows = 0 THEN "synthetic" ELSE "extracted"
           data == IF rows = 0 THEN SyntheticRows ELSE rows
           model == capability_train(
                        new_capability(ClassOf(k), new_oid, "train"),
                        data, fitted)
           rq == IF fitted
                 THEN [req[r] EXCEPT !.pc = "persist", !.model = model,
                         !.input = source]
                 ELSE [finish_run(req[r],
                         run_result(k, "failed", NoVersion, 0, model.oid,
                                    NoInstance))
                       EXCEPT !.input = source]
       IN  /\ req' = [req EXCEPT ![r] = rq]
           /\ running' = holder(r, rq.pc)
    /\ UNCHANGED <<fb, opt, store, live, phase, accepted>>

\* Whether the directory a run is about to create can come first in the
\* listing with an effect (see placement_matters).
can_be_first(st, k, fault) ==
    /\ fault # "makedirs"
    /\ placement_matters(st, k, next_version(get_latest_version(st, k)))

\* get_latest_version, _next_version and save_model of a run whose model is
\* trained; fault is the point where save_model raises, "none" if nowhere.
persisted(rq, k, st, fault, front, then) ==
    LET version == next_version(get_latest_version(st, k))
    IN  [store |-> save_model(st, rq.model, k, version, rq.model.metrics,
                              fault, front),
         req |-> IF fault = "none"
                 THEN [rq EXCEPT !.pc = then, !.version = version]
                 ELSE finish_run(rq,
                        run_result(k, "failed", version, rq.model.metrics,
                                   rq.model.oid, NoInstance))]

TrainPersist(r, fault, front) ==
    /\ Scheduled(r)
    /\ req[r].pc = "persist"
    /\ front => can_be_first(store, Head(req[r].chain), fault)
    /\ LET k == Head(req[r].chain)
           done == persisted(req[r], k, store, fault, front, "reload")
       IN  /\ store' = done.store
           /\ req' = [req EXCEPT ![r] = done.req]
           /\ running' = holder(r, done.req.pc)
    /\ UNCHANGED <<fb, opt, live, phase, accepted>>

\* train_compliance_gap / train_regulatory_predictor after the orchestrator
\* returned: load_model(name, result["version"]), the assignment of the
\* module-level reference, the response.  io_error: reading the artifact
\* back raised (open, json.load or joblib.load), which leaves the handler.
TrainReload(r, io_error) ==
    /\ Scheduled(r)
    /\ req[r].pc = "reload"
    /\ LET k == Head(req[r].chain)
           loaded == load_model(store, k, req[r].version, new_oid)
           raised == io_error \/ loaded.out = "raise"
           swap == ~raised /\ loaded.out = "model"
                   /\ loaded.inst.cls = ClassOf(k)
           rq == finish_run(req[r],
                    IF raised
                    THEN run_result(k, "failed", req[r].version,
                            req[r].model.metrics, req[r].model.oid,
                            NoInstance)
                    ELSE run_result(k, "success", req[r].version,
                            req[r].model.metrics, req[r].model.oid,
                            IF swap THEN loaded.inst ELSE NoInstance))
       IN  /\ live' = IF swap THEN [live EXCEPT ![k] = loaded.inst] ELSE live
           /\ req' = [req EXCEPT ![r] = rq]
           /\ running' = holder(r, rq.pc)
    /\ UNCHANGED <<fb, opt, store, phase, accepted>>

\* train_drift_detector: the synthetic normal-behaviour rows, a new
\* DriftDetector, train.
DriftFit(r) ==
    /\ Scheduled(r)
    /\ req[r].pc = "drift_fit"
    /\ req' = [req EXCEPT ![r].pc = "drift_persist",
                 ![r].model = capability_train(
                     new_capability("DriftDetector", new_oid, "train"),
                     SyntheticRows, TRUE)]
    /\ running' = holder(r, "drift_persist")
    /\ UNCHANGED <<fb, opt, store, live, phase, accepted>>

\* train_drift_detector: get_latest_version, _next_version, save_model.
DriftPersist(r, fault, front) ==
    /\ Scheduled(r)
    /\ req[r].pc = "drift_persist"
    /\ front => can_be_first(store, DD, fault)
    /\ LET done == persisted(req[r], DD, store, fault, front, "drift_swap")
       IN  /\ store' = done.store
           /\ req' = [req EXCEPT ![r] = done.req]
           /\ running' = holder(r, done.req.pc)
    /\ UNCHANGED <<fb, opt, live, phase, accepted>>

\* train_drift_detector: _drift_detector = model, the response.
DriftSwap(r) ==
    /\ Scheduled(r)
    /\ req[r].pc = "drift_swap"
    /\ LET rq == finish_run(req[r],
                    run_result(DD, "success", req[r].version,
                        req[r].model.metrics, req[r].model.oid, req[r].model))
       IN  /\ live' = [live EXCEPT ![DD] = req[r].model]
           /\ req' = [req EXCEPT ![r] = rq]
           /\ running' = holder(r, rq.pc)
    /\ UNCHANGED <<fb, opt, store, phase, accepted>>

\* ---------------------------------------------------------------- reports
\* health_check: is_loaded and version of the six module-level instances.
health_check(lv) ==
    [i \in 1..6 |->
        LET k == <<CG, RP, DD, DO, MS, TC>>[i]
        IN  [report_entry(k) EXCEPT !.is_loaded = lv[k].is_loaded,
                                    !.version = lv[k].version]]

\* A map of names that lacks the underscore spellings.
canonical_name_hyphen_only(name) ==
    IF name \in {CG, RP, DD, DO, MS, TC} THEN name ELSE "None"

\* The names get_model_metrics knows: each kind in its hyphen and in its
\* underscore spelling, mapped to the kind.
canonical_name(name) ==
    CASE name \in {"compliance-gap", "compliance_gap"} -> CG
      [] name \in {"regulatory-predictor", "regulatory_predictor"} -> RP
      [] name \in {"drift-detector", "drift_detector"} -> DD
      [] name \in {"deployment-optimizer", "deployment_optimizer"} -> DO
      [] name \in {"market-signal-predictor", "market_signal_predictor"} -> MS
      [] name \in {"taxonomy-classifier", "taxonomy_classifier"} -> TC
      [] OTHER -> "None"

\* get_model_metrics: HTTP 404 for a name not in the map, else the
\* canonical name with version, is_loaded and metrics of the instance
\* (DeploymentOptimizer, MarketSignalPredictor and TaxonomyClassifier have
\* no metrics attribute: getattr gives the empty mapping).
get_model_metrics(lv, name) ==
    LET k == canonical_name(name)
    IN  IF k = "None" THEN [out |-> "not_found", entries |-> <<>>]
        ELSE [out |-> "ok",
              entries |-> <<[report_entry(k) EXCEPT
                               !.version = lv[k].version,
                               !.is_loaded = lv[k].is_loaded,
                               !.metrics = lv[k].metrics]>>]

\* The model names the metrics requests of the model ask for.
MetricNames == {"compliance-gap", "drift_detector", "taxonomy-classifier", "no-such-model"}

\* GET /health, GET /models/{name}/metrics, GET /models: the handler runs
\* to its return without awaiting.
Report(r, kind, name) ==
    /\ Free(r)
    /\ kind = "metrics" <=> name # ""
    /\ LET made == CASE kind = "health" ->
                         [out |-> "ok", entries |-> health_check(live)]
                     [] kind = "metrics" -> get_model_metrics(live, name)
                     [] kind = "list" -> list_models(store)
       IN  req' = [req EXCEPT ![r] =
                     [IdleRequest EXCEPT !.kind = kind, !.k = name,
                        !.pc = "done", !.resp.status = made.out,
                        !.report = made.entries]]
    /\ running' = r
    /\ UNCHANGED <<fb, opt, store, live, phase, accepted>>

Next ==
    \/ Hydrate
    \/ \E r \in Reqs :
        \/ \E k \in {CG, RP}, input \in PredictInputs : PredictBegin(r, k, input)
        \/ \E raises \in BOOLEAN : PredictCompute(r, raises)
        \/ PredictRespond(r)
        \/ \E input \in DriftInputs, raises \in BOOLEAN :
              DriftDetect(r, input, raises)
        \/ \E chain \in TrainChains : TrainBegin(r, chain)
        \/ \E rows \in ExtractRows, fitted \in BOOLEAN : TrainFit(r, rows, fitted)
        \/ \E fault \in SaveFaults, front \in BOOLEAN : TrainPersist(r, fault, front)
        \/ \E io_error \in BOOLEAN : TrainReload(r, io_error)
        \/ DriftFit(r)
        \/ \E fault \in SaveFaults, front \in BOOLEAN : DriftPersist(r, fault, front)
        \/ DriftSwap(r)
        \/ \E kind \in {"health", "metrics", "list"}, name \in MetricNames \cup {""} :
              Report(r, kind, name)
        \/ Return(r)

Spec == Init /\ [][Next]_vars

\* The service under train and retrain-all requests only: the startup and
\* the steps of the training runs, which are the steps that write to the
\* store and to the live references.
TrainingNext ==
    \/ Hydrate
    \/ \E r \in Reqs :
        \/ \E chain \in TrainChains : TrainBegin(r, chain)
        \/ \E rows \in ExtractRows, fitted \in BOOLEAN : TrainFit(r, rows, fitted)
        \/ \E fault \in SaveFaults, front \in BOOLEAN : TrainPersist(r, fault, front)
        \/ \E io_error \in BOOLEAN : TrainReload(r, io_error)
        \/ DriftFit(r)
        \/ \E fault \in SaveFaults, front \in BOOLEAN : DriftPersist(r, fault, front)
        \/ DriftSwap(r)
        \/ Return(r)

TrainingSpec == Init /\ [][TrainingNext]_vars

\* ------------------------------------------------- the store on its own
\* ModelStore and _next_version called on an artifact tree of any names:
\* the listing of compliance-gap holds up to MaxListed version directories
\* with names of VersionNames, in any order; the other names have none.
MaxListed == 3

V109 == <<"1", ".", "0", ".", "9">>
V110 == <<"1", ".", "1", ".", "0">>
V200 == <<"2", ".", "0", ".", "0">>
V1000 == <<"1", "0", ".", "0", ".", "0">>
Vv200 == <<"v", "2", ".", "0", ".", "0">>
V10b == <<"1", ".", "0", ".", "b">>

VersionNames == {V100, V109, V110, V200, V1000, Vv200, V10b, V20b}

Listings ==
    {l \in UNION {[1..n -> VersionNames] : n \in 0..MaxListed} :
        \A i, j \in 1..Len(l) : l[i] = l[j] => i = j}

StoreInit ==
    /\ \E l \in Listings :
          store = [k \in Trainable |->
                     IF k = CG
                     THEN [i \in 1..Len(l) |-> complete_dir(CG, l[i], 7, 160)]
                     ELSE <<>>]
    /\ live = DefaultLive
    /\ phase = "library"
    /\ req = [r \in Reqs |-> IdleRequest]
    /\ running = 0
    /\ accepted = 0
    /\ opt = NoOptimizer
    /\ fb = NoFallbackCalls

\* A call can be made in slot r: no call is running and r is the first slot.
CanCall(r) ==
    /\ phase = "library"
    /\ running = 0
    /\ r = 1

\* get_latest_version(name): the value returned is kept in version.
CallGetLatest(r, name) ==
    /\ CanCall(r)
    /\ req' = [req EXCEPT ![r] =
          [IdleRequest EXCEPT !.kind = "get_latest_version", !.k = name,
             !.pc = "done", !.version = get_latest_version(store, name)]]
    /\ running' = r
    /\ UNCHANGED <<fb, opt, store, live, phase, accepted>>

\* _next_version(get_latest_version(name)), as a training run computes it.
CallNextVersion(r, name) ==
    /\ CanCall(r)
    /\ req' = [req EXCEPT ![r] =
          [IdleRequest EXCEPT !.kind = "next_version", !.k = name,
             !.pc = "done",
             !.version = next_version(get_latest_version(store, name))]]
    /\ running' = r
    /\ UNCHANGED <<fb, opt, store, live, phase, accepted>>

\* list_models(): the entries returned are kept in report.
CallListModels(r) ==
    /\ CanCall(r)
    /\ LET made == list_models(store)
       IN  req' = [req EXCEPT ![r] =
             [IdleRequest EXCEPT !.kind = "list_models", !.pc = "done",
                !.resp.status = made.out, !.report = made.entries]]
    /\ running' = r
    /\ UNCHANGED <<fb, opt, store, live, phase, accepted>>

StoreNext ==
    \E r \in Reqs :
        \/ \E name \in {CG, RP} : CallGetLatest(r, name)
        \/ \E name \in {CG, RP} : CallNextVersion(r, name)
        \/ CallListModels(r)
        \/ Return(r)

StoreSpec == StoreInit /\ [][StoreNext]_vars

\* --------------------------------------------- the optimizer on its own
\* DeploymentOptimizer.optimize called again and again, on the instance of
\* main.py or on another one, each call followed through its generations.
\* opt holds
\*   call       the locals of the call that is running, NoCall if none
\*   on         the instance the call was made on
\*   left       the generator as the last call on each instance left it
\*   evaluated  the highest fitness the running call has computed in its
\*              loop, kept apart from the locals
\*   first_best best_fitness after the first generation of the running call
\*   feasible_seen  whether the running call has evaluated, in its loop, a
\*              candidate that fits the constraints
\*   history    the calls that returned: [on, constraints, result]
MaxCalls == 3

Instances == {"main", "other"}

\* The constraints a call is made with, after the parsing of optimize: the
\* defaults, and two agents with less CPU and less memory for each than
\* the least cpu_per_agent and memory_per_agent, under a long target
\* latency.
DefaultConstraints ==
    [max_cpu |-> 800, max_memory |-> 16384, target_latency |-> 100,
     agent_count |-> 3]

ScarceConstraints ==
    [max_cpu |-> 20, max_memory |-> 200, target_latency |-> 10000,
     agent_count |-> 2]

ConstraintSets == {DefaultConstraints, ScarceConstraints}

NoCall == [generations_run |-> -1]

OptInit ==
    /\ store = [k \in Trainable |-> <<>>]
    /\ live = DefaultLive
    /\ phase = "library"
    /\ req = [r \in Reqs |-> IdleRequest]
    /\ running = 0
    /\ accepted = 0
    /\ fb = NoFallbackCalls
    /\ opt = [call |-> NoCall, on |-> "",
              left |-> [i \in Instances |-> seeded],
              evaluated |-> NegInf, first_best |-> NegInf,
              feasible_seen |-> FALSE, history |-> <<>>]

\* The generator of an instance that keeps one from call to call.
call_rng_of_instance(o, inst) == o.left[inst]

\* rng = random.Random(42): the generator a call on inst draws from.
call_rng(o, inst) == seeded

\* The highest fitness of a population.
max_fitness(pop, c) ==
    LET seen == {fitness(pop[i], c) : i \in 1..Len(pop)}
    IN  CHOOSE f \in seen : \A other \in seen : other <= f

\* optimize(constraints) up to its loop.
OptimizeBegin(inst, c) ==
    /\ opt.call = NoCall
    /\ Len(opt.history) < MaxCalls
    /\ opt' = [opt EXCEPT !.call = begin_optimize(c, call_rng(opt, inst)),
                          !.on = inst,
                          !.evaluated = NegInf,
                          !.first_best = NegInf,
                          !.feasible_seen = FALSE]
    /\ UNCHANGED <<fb, store, live, phase, req, running, accepted>>

\* One pass of the loop.
OptimizeGeneration ==
    /\ opt.call # NoCall
    /\ loop_continues(opt.call)
    /\ LET after == generation(opt.call)
       IN  opt' = [opt EXCEPT
                !.call = after,
                !.evaluated =
                    Max2(@, max_fitness(opt.call.population,
                                        opt.call.constraints)),
                !.first_best =
                    IF opt.call.generations_run = 0 THEN after.best_fitness
                    ELSE @,
                !.feasible_seen =
                    \/ @
                    \/ \E i \in 1..Len(opt.call.population) :
                          feasible(opt.call.population[i],
                                   opt.call.constraints)]
    /\ UNCHANGED <<fb, store, live, phase, req, running, accepted>>

\* The loop is over: optimize returns.
OptimizeReturn ==
    /\ opt.call # NoCall
    /\ ~loop_continues(opt.call)
    /\ opt' = [opt EXCEPT
            !.call = NoCall,
            !.on = "",
            !.left[opt.on] = opt.call.rng,
            !.history = Append(@, [on |-> opt.on,
                                   constraints |-> opt.call.constraints,
                                   result |-> optimize_result(opt.call)])]
    /\ UNCHANGED <<fb, store, live, phase, req, running, accepted>>

OptNext ==
    \/ \E inst \in Instances, c \in ConstraintSets : OptimizeBegin(inst, c)
    \/ OptimizeGeneration
    \/ OptimizeReturn

OptSpec == OptInit /\ [][OptNext]_vars

\* Forty-nine agents on ten cores and 512 MB under a long target latency:
\* hardly any configuration fits.
CrowdedConstraints ==
    [max_cpu |-> 1000, max_memory |-> 512, target_latency |-> 5000,
     agent_count |-> 49]

CrowdedNext ==
    \/ \E inst \in Instances : OptimizeBegin(inst, CrowdedConstraints)
    \/ OptimizeGeneration
    \/ OptimizeReturn

CrowdedSpec == OptInit /\ [][CrowdedNext]_vars

\* ------------------------------------ the compliance-gap fallback on its own
\* ComplianceGapModel.predict_fallback called on a list of records at
\* different times.  A record is [compliance_rate, status, last_check_date]:
\* the rate in hundredths, the date as the number of its day, NoDate for a
\* record without one.  fb holds
\*   input   the list of records of the calls
\*   at      the position in Instants of the day it is
\*   log     for each position in Instants, whether a call was made on
\*           that day and the result it returned
NoDate == -1000

\* The days, counted from the one of last_check_date, on which calls are
\* made: before and after 180 days and after 365 days.
Instants == <<100, 200, 300, 400>>

\* The lists of records of the calls: up to two records, the rates on
\* both sides of the thresholds 0.3, 0.5 and 0.7.
FallbackInputs ==
    LET records == [compliance_rate : {20, 30, 40, 50, 60, 70},
                    status : {"compliant", "non_compliant"},
                    last_check_date : {NoDate, 0}]
    IN  {<<>>} \cup {<<a>> : a \in records}
               \cup {<<a, b>> : a, b \in records}

\* A rule 1 that takes a rate equal to the threshold as below it.
rate_flags_inclusive(rate) ==
    IF rate <= 50
    THEN <<[gap_type |-> "low_compliance_rate",
            severity |-> IF rate <= 30 THEN "critical" ELSE "high",
            confidence |-> (100 - rate) * 100, days |-> 0]>>
    ELSE IF rate <= 70
    THEN <<[gap_type |-> "moderate_compliance_rate", severity |-> "medium",
            confidence |-> (100 - rate) * 100, days |-> 0]>>
    ELSE <<>>

\* Rule 1: the flag of a low or moderate compliance rate.  confidence is
\* in ten-thousandths; days is the days_since that title and description
\* of a flag spell out, 0 where they have none.
rate_flags(rate) ==
    IF rate < 50
    THEN <<[gap_type |-> "low_compliance_rate",
            severity |-> IF rate < 30 THEN "critical" ELSE "high",
            confidence |-> (100 - rate) * 100, days |-> 0]>>
    ELSE IF rate < 70
    THEN <<[gap_type |-> "moderate_compliance_rate", severity |-> "medium",
            confidence |-> (100 - rate) * 100, days |-> 0]>>
    ELSE <<>>

\* Rule 2: the flag of a non-compliant status.
status_flags(status) ==
    IF status = "non_compliant"
    THEN <<[gap_type |-> "non_compliant_status", severity |-> "high",
            confidence |-> 9500, days |-> 0]>>
    ELSE <<>>

\* Rule 3: the flag of a check more than 180 days before today, the day
\* datetime.now gives.  The confidence min(0.99, days_since / 730) is cut
\* to ten-thousandths.
stale_flags(last_check, today) ==
    LET days_since == today - last_check
        ratio == (days_since * 10000) \div 730
    IN  IF last_check # NoDate /\ days_since > 180
        THEN <<[gap_type |-> "stale_compliance_check",
                severity |-> IF days_since > 365 THEN "high" ELSE "medium",
                confidence |-> IF ratio > 9900 THEN 9900 ELSE ratio,
                days |-> days_since]>>
        ELSE <<>>

\* predict_fallback(compliance_records) called on the day today: the
\* flags of each record, one record after another.
RECURSIVE predict_fallback(_, _)
predict_fallback(records, today) ==
    IF records = <<>> THEN <<>>
    ELSE predict_fallback(Front(records), today)
            \o rate_flags(Last(records).compliance_rate)
            \o status_flags(Last(records).status)
            \o stale_flags(Last(records).last_check_date, today)

FallbackInit ==
    /\ store = [k \in Trainable |-> <<>>]
    /\ live = DefaultLive
    /\ phase = "library"
    /\ req = [r \in Reqs |-> IdleRequest]
    /\ running = 0
    /\ accepted = 0
    /\ opt = NoOptimizer
    /\ \E input \in FallbackInputs :
          fb = [input |-> input, at |-> 1,
                log |-> [i \in 1..Len(Instants) |->
                           [called |-> FALSE, result |-> <<>>]]]

\* A call of predict_fallback on the input, today.
CallFallback ==
    /\ ~fb.log[fb.at].called
    /\ fb' = [fb EXCEPT
            !.log[fb.at] =
                [called |-> TRUE,
                 result |-> predict_fallback(fb.input, Instants[fb.at])]]
    /\ UNCHANGED <<store, live, phase, req, running, accepted, opt>>

\* Time passes to the next of the days.
DayPasses ==
    /\ fb.at < Len(Instants)
    /\ fb' = [fb EXCEPT !.at = @ + 1]
    /\ UNCHANGED <<store, live, phase, req, running, accepted, opt>>

FallbackNext == CallFallback \/ DayPasses

FallbackSpec == FallbackInit /\ [][FallbackNext]_vars

\* ------------------------------------------ a save and readers of the tree
\* save_model followed statement by statement in slot 1, while another
\* thread or process calls get_latest_version, load_model(name, "latest")
\* and list_models on the same model_dir in slot 2.

\* The statements of save_model that change the file system, in order:
\* os.makedirs; joblib.dump creates model.joblib and writes it to the end;
\* open(metadata_path, "w") creates the sidecar and json.dump writes it.
SaveSteps == <<"makedirs", "dump_open", "dump", "meta_open", "meta_write">>

\* The directory of the version after the statement SaveSteps[n]: what a
\* save_model that stopped there leaves behind.
save_model_upto(n, model, name, version, metrics) ==
    LET d == new_dir(version)
    IN  CASE n = 1 -> d
          [] n = 2 -> saved_dir(d, model, name, version, metrics, "dump")
          [] n = 3 -> [saved_dir(d, model, name, version, metrics, "none")
                          EXCEPT !.meta = NoMeta]
          [] n = 4 -> saved_dir(d, model, name, version, metrics, "meta_write")
          [] n = 5 -> saved_dir(d, model, name, version, metrics, "none")

\* Each name has one or two complete versions before the first save.
WriteInit ==
    /\ \E n \in 1..2 :
          store = [k \in Trainable |->
                     IF k = DD THEN <<>>
                     ELSE SubSeq(<<complete_dir(k, V100, 7, 160),
                                   complete_dir(k, V101, 8, 160)>>, 1, n)]
    /\ live = DefaultLive
    /\ phase = "library"
    /\ req = [r \in Reqs |-> IdleRequest]
    /\ running = 0
    /\ accepted = 0
    /\ opt = NoOptimizer
    /\ fb = NoFallbackCalls

\* save_model(model, name, version, metrics) under the next version of the
\* name is called and makes the version directory; the model is a trained
\* capability or one as its constructor left it.
SaveBegin(name, trained) ==
    /\ phase = "library"
    /\ req[1].pc = "idle"
    /\ accepted < MaxTrainRuns
    /\ accepted' = accepted + 1
    /\ LET version == next_version(get_latest_version(store, name))
           made == new_capability(ClassOf(name), new_oid, "train")
           model == IF trained
                    THEN capability_train(made, SyntheticRows, TRUE)
                    ELSE made
       IN  /\ store' = [store EXCEPT ![name] =
                  Append(@, save_model_upto(1, model, name, version,
                                            model.metrics))]
           /\ req' = [req EXCEPT ![1] =
                  [IdleRequest EXCEPT !.kind = "save_model", !.k = name,
                     !.pc = SaveSteps[1], !.version = version,
                     !.model = model]]
    /\ UNCHANGED <<fb, opt, live, phase, running>>

\* The next statement of the save_model in progress; after the last one
\* the call returns.
SaveStep ==
    /\ req[1].kind = "save_model"
    /\ LET n == CHOOSE i \in 1..Len(SaveSteps) : SaveSteps[i] = req[1].pc
           name == req[1].k
       IN  IF n < Len(SaveSteps)
           THEN /\ store' = [store EXCEPT
                      ![name][dir_index(store, name, req[1].version)] =
                          save_model_upto(n + 1, req[1].model, name,
                              req[1].version, req[1].model.metrics)]
                /\ req' = [req EXCEPT ![1].pc = SaveSteps[n + 1]]
           ELSE /\ req' = [req EXCEPT ![1] = IdleRequest]
                /\ UNCHANGED store
    /\ UNCHANGED <<fb, opt, live, phase, running, accepted>>

\* The reader calls get_latest_version(name).
ReadLatest(name) ==
    /\ phase = "library"
    /\ req' = [req EXCEPT ![2] =
          [IdleRequest EXCEPT !.kind = "get_latest_version", !.k = name,
             !.pc = "done", !.version = get_latest_version(store, name)]]
    /\ UNCHANGED <<fb, opt, store, live, phase, running, accepted>>

\* The reader calls load_model(name, "latest"): the outcome is kept in
\* resp.status, the instance returned in model.
ReadLoad(name) ==
    /\ phase = "library"
    /\ LET loaded == load_model(store, name, LATEST, new_oid)
       IN  req' = [req EXCEPT ![2] =
             [IdleRequest EXCEPT !.kind = "load_model", !.k = name,
                !.pc = "done", !.resp.status = loaded.out,
                !.model = loaded.inst]]
    /\ UNCHANGED <<fb, opt, store, live, phase, running, accepted>>

\* The reader calls list_models().
ReadList ==
    /\ phase = "library"
    /\ LET made == list_models(store)
       IN  req' = [req EXCEPT ![2] =
             [IdleRequest EXCEPT !.kind = "list_models", !.pc = "done",
                !.resp.status = made.out, !.report = made.entries]]
    /\ UNCHANGED <<fb, opt, store, live, phase, running, accepted>>

WriteNext ==
    \/ \E name \in {CG, RP}, trained \in BOOLEAN : SaveBegin(name, trained)
    \/ SaveStep
    \/ \E name \in {CG, RP} : ReadLatest(name)
    \/ \E name \in {CG, RP} : ReadLoad(name)
    \/ ReadList

WriteSpec == WriteInit /\ [][WriteNext]_vars

\* ------------------------------------ the taxonomy fallback on its own
\* TaxonomyClassifier._classify_fallback called on lists of regulations.
\* Texts are sequences of characters; fb holds the list given and, once
\* the call was made, the dict returned.
MaxRegulations == 2

\* TAXONOMY_KEYWORDS, in the order of the dict.
TAXONOMY_KEYWORDS ==
    << [cat |-> "data_privacy",
        keywords |-> <<
           <<"p", "r", "i", "v", "a", "c", "y">>,
           <<"d", "a", "t", "a", " ", "p", "r", "o", "t", "e", "c", "t", "i", "o", "n">>,
           <<"g", "d", "p", "r">>,
           <<"c", "c", "p", "a">>,
           <<"p", "e", "r", "s", "o", "n", "a", "l", " ", "d", "a", "t", "a">>,
           <<"c", "o", "n", "s", "e", "n", "t">>,
           <<"d", "a", "t", "a", " ", "b", "r", "e", "a", "c", "h">>,
           <<"p", "i", "i">>,
           <<"r", "i", "g", "h", "t", " ", "t", "o", " ", "e", "r", "a", "s", "u", "r", "e">>,
           <<"c", "o", "o", "k", "i", "e", "s">>>>],
       [cat |-> "financial",
        keywords |-> <<
           <<"f", "i", "n", "a", "n", "c", "i", "a", "l">>,
           <<"b", "a", "n", "k", "i", "n", "g">>,
           <<"p", "a", "y", "m", "e", "n", "t">>,
           <<"a", "m", "l">>,
           <<"a", "n", "t", "i", "-", "m", "o", "n", "e", "y">>,
           <<"s", "o", "x">>,
           <<"s", "a", "r", "b", "a", "n", "e", "s">>,
           <<"d", "o", "d", "d", "-", "f", "r", "a", "n", "k">>,
           <<"s", "e", "c">>,
           <<"f", "i", "n", "r", "a">>,
           <<"k", "y", "c">>>>],
       [cat |-> "healthcare",
        keywords |-> <<
           <<"h", "e", "a", "l", "t", "h">>,
           <<"h", "i", "p", "a", "a">>,
           <<"m", "e", "d", "i", "c", "a", "l">>,
           <<"p", "a", "t", "i", "e", "n", "t">>,
           <<"c", "l", "i", "n", "i", "c", "a", "l">>,
           <<"p", "h", "a", "r", "m", "a", "c", "e", "u", "t", "i", "c", "a", "l">>,
           <<"f", "d", "a">>,
           <<"d", "r", "u", "g">>,
           <<"d", "i", "a", "g", "n", "o", "s", "i", "s">>,
           <<"t", "r", "e", "a", "t", "m", "e", "n", "t">>>>],
       [cat |-> "environmental",
        keywords |-> <<
           <<"e", "n", "v", "i", "r", "o", "n", "m", "e", "n", "t">>,
           <<"e", "m", "i", "s", "s", "i", "o", "n">>,
           <<"c", "a", "r", "b", "o", "n">>,
           <<"p", "o", "l", "l", "u", "t", "i", "o", "n">>,
           <<"w", "a", "s", "t", "e">>,
           <<"e", "p", "a">>,
           <<"c", "l", "i", "m", "a", "t", "e">>,
           <<"s", "u", "s", "t", "a", "i", "n", "a", "b", "i", "l", "i", "t", "y">>,
           <<"r", "e", "n", "e", "w", "a", "b", "l", "e">>,
           <<"h", "a", "z", "a", "r", "d", "o", "u", "s">>>>],
       [cat |-> "cybersecurity",
        keywords |-> <<
           <<"c", "y", "b", "e", "r">>,
           <<"s", "e", "c", "u", "r", "i", "t", "y">>,
           <<"e", "n", "c", "r", "y", "p", "t", "i", "o", "n">>,
           <<"v", "u", "l", "n", "e", "r", "a", "b", "i", "l", "i", "t", "y">>,
           <<"f", "i", "r", "e", "w", "a", "l", "l">>,
           <<"i", "n", "c", "i", "d", "e", "n", "t", " ", "r", "e", "s", "p", "o", "n", "s", "e">>,
           <<"p", "e", "n", "e", "t", "r", "a", "t", "i", "o", "n">>,
           <<"m", "a", "l", "w", "a", "r", "e">>,
           <<"n", "i", "s", "t">>,
           <<"i", "s", "o", " ", "2", "7", "0", "0", "1">>>>] >>

\* f"{title} {description}".lower()
text_of(reg) ==
    LET upper == <<"A", "B", "C", "D", "E", "F", "G", "H", "I", "J", "K",
                   "L", "M", "N", "O", "P", "Q", "R", "S", "T", "U", "V",
                   "W", "X", "Y", "Z">>
        small == <<"a", "b", "c", "d", "e", "f", "g", "h", "i", "j", "k",
                   "l", "m", "n", "o", "p", "q", "r", "s", "t", "u", "v",
                   "w", "x", "y", "z">>
        s == reg.title \o <<" ">> \o reg.description
    IN  [i \in 1..Len(s) |->
            IF \E j \in 1..26 : upper[j] = s[i]
            THEN small[CHOOSE j \in 1..26 : upper[j] = s[i]]
            ELSE s[i]]

\* kw in text
contains(kw, text) ==
    \E i \in 1..(Len(text) - Len(kw) + 1) :
        SubSeq(text, i, i + Len(kw) - 1) = kw

\* _classify_fallback as it would be if it matched the keywords before it
\* looked at the category given.
fallback_category_keywords_first(reg) ==
    LET text == text_of(reg)
        hit(c) == \E k \in 1..Len(TAXONOMY_KEYWORDS[c].keywords) :
                      contains(TAXONOMY_KEYWORDS[c].keywords[k], text)
        hits == {c \in 1..Len(TAXONOMY_KEYWORDS) : hit(c)}
        keys == {TAXONOMY_KEYWORDS[c].cat : c \in 1..Len(TAXONOMY_KEYWORDS)}
    IN  IF hits # {}
        THEN TAXONOMY_KEYWORDS[CHOOSE c \in hits :
                                  \A d \in hits : c <= d].cat
        ELSE IF reg.category # "" /\ reg.category \in keys
        THEN reg.category
        ELSE "general"

\* The body of the loop over the regulations: the key of clusters_map the
\* regulation is appended to.  The category given, when it is a key of the
\* taxonomy; else the first category, in the order of the dict, one of
\* whose keywords is in the text; else "general".
fallback_category(reg) ==
    LET text == text_of(reg)
        hit(c) == \E k \in 1..Len(TAXONOMY_KEYWORDS[c].keywords) :
                      contains(TAXONOMY_KEYWORDS[c].keywords[k], text)
        hits == {c \in 1..Len(TAXONOMY_KEYWORDS) : hit(c)}
        keys == {TAXONOMY_KEYWORDS[c].cat : c \in 1..Len(TAXONOMY_KEYWORDS)}
    IN  IF reg.category # "" /\ reg.category \in keys
        THEN reg.category
        ELSE IF hits # {}
        THEN TAXONOMY_KEYWORDS[CHOOSE c \in hits :
                                  \A d \in hits : c <= d].cat
        ELSE "general"

\* _classify_fallback: clusters_map filled in the order of the input, then
\* one cluster for each key in sorted order, its regulations cut down to
\* id and title.
classify_fallback(regulations) ==
    LET order == <<"cybersecurity", "data_privacy", "environmental",
                   "financial", "general", "healthcare">>
        key == [i \in 1..Len(regulations) |->
                   fallback_category(regulations[i])]
        clusters_map ==
            [l \in 1..Len(order) |->
                SelectSeq([i \in 1..Len(regulations) |-> i],
                          LAMBDA i : key[i] = order[l])]
        labels == SelectSeq([l \in 1..Len(order) |-> l],
                            LAMBDA l : clusters_map[l] # <<>>)
        clusters ==
            [i \in 1..Len(labels) |->
                [id |-> i - 1, label |-> order[labels[i]],
                 regulations |->
                    [j \in 1..Len(clusters_map[labels[i]]) |->
                        [id |-> regulations[clusters_map[labels[i]][j]].id,
                         title |->
                            regulations[clusters_map[labels[i]][j]].title]],
                 similarity_score |-> 1]]
    IN  [clusters |-> clusters, total_clusters |-> Len(clusters),
         method |-> "keyword_fallback"]

\* The regulations the lists are made of: a title in capitals, a title
\* that holds a keyword of an earlier category inside a word ("sec" in
\* "Security"), a
\* keyword that begins in the title and ends in the description ("data
\* protection"), no keyword at all; each with no category and with a
\* category of the taxonomy.
TaxonomyInit ==
    /\ LET texts ==
                { << <<"G", "D", "P", "R">>, <<>> >>,
                  << <<"S", "e", "c", "u", "r", "i", "t", "y">>, <<>> >>,
                  << <<"D", "a", "t", "a">>,
                     <<"p", "r", "o", "t", "e", "c", "t", "i", "o", "n">> >>,
                  << <<"R", "u", "l", "e">>, <<>> >> }
            given ==
                {[id |-> id, title |-> t[1], description |-> t[2],
                  category |-> c] :
                    id \in {"reg-1", "reg-2"}, t \in texts,
                    c \in {"", "healthcare"}}
       IN  \E regulations \in
                UNION {[1..n -> given] : n \in 0..MaxRegulations} :
              fb = [input |-> regulations, called |-> FALSE,
                    result |-> classify_fallback(<<>>)]
    /\ store = [k \in Trainable |-> <<>>]
    /\ live = DefaultLive
    /\ phase = "library"
    /\ req = [r \in Reqs |-> IdleRequest]
    /\ running = 0
    /\ accepted = 0
    /\ opt = NoOptimizer

\* classifier._classify_fallback(regulations)
ClassifyFallback ==
    /\ phase = "library"
    /\ ~fb.called
    /\ fb' = [fb EXCEPT !.called = TRUE,
                        !.result = classify_fallback(fb.input)]
    /\ UNCHANGED <<store, live, phase, req, running, accepted, opt>>

TaxonomySpec == TaxonomyInit /\ [][ClassifyFallback]_vars

\* -------------------------------------------------------------- properties
\* The results of the training runs recorded in the request slots.
Results ==
    UNION {{req[r].results[i] : i \in 1..Len(req[r].results)} : r \in Reqs}

\* C1: for every train endpoint, a training run that succeeded with version
\* V assigned as the live reference an instance that load_model(name, V)
\* reconstructed from the artifact store, never the instance it trained.
C1_HotSwapReloadsFromStore ==
    \A res \in Results :
        res.status = "success" =>
            /\ res.published.made_by = "load_model"
            /\ res.published.made_from = res.version
            /\ res.published.oid # res.trained

\* C2: no training run writes into a version directory that existed before
\* the run: every version directory of the store is found unchanged after
\* every step, whatever the names in the store.
C2_VersionDirsNeverRewritten ==
    [][\A n \in Trainable : \A i \in 1..Len(store[n]) :
          \E j \in 1..Len(store'[n]) : store'[n][j] = store[n][i]]_vars

\* C3: a training run works on a new instance disjoint from the live ones,
\* and every step of a train or retrain-all request other than the step
\* that records a successful run leaves every live reference, with its
\* is_loaded, version and metrics, as it was: a run that fails at any step
\* has not touched the live instance of its kind.
RunInstanceIsNew ==
    \A r \in Reqs :
        req[r].model # NoInstance =>
            \A k \in Kinds : live[k].oid # req[r].model.oid

RecordsSuccess(r) ==
    /\ Len(req'[r].results) = Len(req[r].results) + 1
    /\ Last(req'[r].results).status = "success"

TrainStepOf(r) ==
    /\ req'[r] # req[r]
    /\ {req[r].kind, req'[r].kind} \cap {"train", "retrain_all"} # {}

C3_FailedTrainLeavesLive ==
    /\ []RunInstanceIsNew
    /\ [][\A r \in Reqs :
            TrainStepOf(r) /\ ~RecordsSuccess(r) => live' = live]_vars

\* A run failed while the live instance of its kind is one that was loaded
\* from the store, and that instance is still the live one.
C3_Witness ==
    \E r \in Reqs : \E i \in 1..Len(req[r].results) :
        /\ req[r].results[i].status = "failed"
        /\ req[r].results[i].trained # 0
        /\ live[req[r].results[i].model_name].made_by = "load_model"
        /\ live[req[r].results[i].model_name].is_loaded

\* C4: a step that records a failed run for model name n leaves the
\* artifacts of n usable as before: get_latest_version(n) and
\* load_model(n, "latest") give what they gave before the step.
RecordsFailure(r) ==
    /\ Len(req'[r].results) = Len(req[r].results) + 1
    /\ Last(req'[r].results).status = "failed"

C4_FailedRunKeepsLatestUsable ==
    [][\A r \in Reqs :
          RecordsFailure(r) =>
              LET n == Last(req'[r].results).model_name
              IN  /\ get_latest_version(store', n) = get_latest_version(store, n)
                  /\ load_model(store', n, LATEST, 0)
                       = load_model(store, n, LATEST, 0)]_vars

\* The predict requests that have dispatched, and their responses.
Dispatched ==
    {r \in Reqs : req[r].kind = "predict" /\ req[r].resp.decided_by # 0}

\* C5: a predict request of compliance-gap, regulatory-predictor or
\* drift-detector that was dispatched while the live instance had
\* is_loaded = false never calls the learner, and the result it computes is
\* the one the fallback function gives for its input.
C5_UnloadedUsesFallbackOnly ==
    \A r \in Dispatched :
        ~req[r].resp.live_is_loaded =>
            /\ ~req[r].resp.learner_called
            /\ req[r].resp.computed_by # 0 =>
                   /\ req[r].resp.path = "fallback"
                   /\ req[r].resp.result
                        = fallback_result(req[r].k, live[req[r].k],
                                          req[r].input)

\* A compliance-gap request with records was answered by the fallback
\* while the live instance was not loaded.
C5_Witness ==
    \E r \in Dispatched :
        /\ req[r].k = CG
        /\ req[r].input = "records"
        /\ req[r].resp.status = "ok"
        /\ ~req[r].resp.live_is_loaded
        /\ req[r].resp.path = "fallback"

\* C6: when the live instance is loaded and its learner raises, the
\* request still ends with status ok and with the result of the fallback
\* for its input.
C6_LearnerFailureFallsBack ==
    \A r \in Dispatched :
        (/\ req[r].resp.live_is_loaded
         /\ req[r].resp.learner_raised
         /\ req[r].pc = "done")
        => /\ req[r].resp.status = "ok"
           /\ req[r].resp.result
                = fallback_result(req[r].k, live[req[r].k], req[r].input)

\* C7: a step of a predict, health, metrics or list request leaves every
\* live reference and every live instance as it was, also when the learner
\* raised and the request went on with the fallback; the live instance of
\* a kind changes only at startup hydration or in the step of a training
\* run of that kind that records its success.
ReadStepOf(r) ==
    /\ req'[r] # req[r]
    /\ {req[r].kind, req'[r].kind}
         \cap {"predict", "health", "metrics", "list"} # {}

C7_ReadRequestsKeepLive ==
    [][/\ \A r \in Reqs : ReadStepOf(r) => live' = live
       /\ \A k \in Kinds :
            live'[k] # live[k] =>
                \/ phase = "startup"
                \/ \E r \in Reqs :
                      /\ RecordsSuccess(r)
                      /\ Last(req'[r].results).model_name = k]_vars

\* A request was answered by the fallback after the learner of the loaded
\* live instance raised, and that instance is still loaded.
C7_Witness ==
    \E r \in Dispatched :
        /\ req[r].pc = "done"
        /\ req[r].resp.learner_raised
        /\ req[r].resp.path = "fallback"
        /\ live[req[r].k].oid = req[r].resp.decided_by
        /\ live[req[r].k].is_loaded

\* C8: the instance a predict request branched on, the instance that
\* computed its result and the instance whose version it reports are one
\* and the same, whatever training runs of the kind are in flight.
C8_PredictUsesOneInstance ==
    \A r \in Dispatched :
        /\ req[r].resp.computed_by \in {0, req[r].resp.decided_by}
        /\ req[r].resp.version_of \in {0, req[r].resp.decided_by}

\* A predict request was answered by a hot-swapped instance while a
\* training run of the same kind is in flight in another slot.
C8_Witness ==
    \E r \in Dispatched : \E q \in Reqs \ {r} :
        /\ req[r].pc = "done"
        /\ req[r].resp.version_of = req[r].resp.decided_by
        /\ req[r].resp.computed_by = req[r].resp.decided_by
        /\ live[req[r].k].made_by = "load_model"
        /\ req[q].pc = "extract"
        /\ Head(req[q].chain) = req[r].k

\* C9: startup hydration completes on every artifact tree: the step out of
\* startup leads to serving, with the result of load_model(name, "latest")
\* as the live instance where it is a capability of the kind and with the
\* default instance elsewhere.
C9_StartupAlwaysCompletes ==
    [][phase = "startup" =>
          /\ phase' = "serving"
          /\ \A k \in Trainable :
                LET loaded == load_model(store, k, LATEST, live'[k].oid)
                IN  IF loaded.out = "model" /\ loaded.inst.cls = ClassOf(k)
                    THEN live'[k] = loaded.inst
                    ELSE live'[k] = DefaultLive[k]]_vars

\* C10: load_model on a version directory whose metadata.json is corrupt
\* or lacks "model_class" returns none.
C10_MalformedMetadataLoadsNone ==
    \A n \in Trainable : \A i \in 1..Len(store[n]) :
        (\/ store[n][i].meta.state = "corrupt"
         \/ store[n][i].meta.state = "ok" /\ store[n][i].meta.model_class = "")
        => load_model(store, n, store[n][i].ver, 0).out = "none"

\* The version arguments load_model is probed with: "latest", the names
\* of the store and one name the store never holds.
V999 == <<"9", ".", "9", ".", "9">>

ProbeVersions(n) ==
    {LATEST, V999} \cup {store[n][i].ver : i \in 1..Len(store[n])}

\* Whether load_model(n, v) falls under a case that is to give none: no
\* version directory at all (which is also what "latest" finds under an
\* absent name directory), an absent version directory, an absent sidecar,
\* or a sidecar whose discriminator is not a class load_model knows.
NoneCase(n, v) ==
    LET ver == IF v = LATEST THEN get_latest_version(store, n) ELSE v
        at == {i \in 1..Len(store[n]) : store[n][i].ver = ver}
    IN  \/ Len(store[n]) = 0
        \/ at = {}
        \/ \E i \in at :
              \/ store[n][i].meta.state = "absent"
              \/ /\ store[n][i].meta.state = "ok"
                 /\ store[n][i].meta.model_class \notin
                        {"ComplianceGapModel", "RegulatoryPredictor"}

\* The states in which load_model is called: the event loop is free, so
\* that startup or a request can call it, or a training run is at the
\* reload that follows its save.  Every step that changes the store leads
\* to such a state with the store as that step left it.
LoadCallable ==
    \/ running = 0
    \/ \E r \in Reqs : running = r /\ req[r].pc = "reload"

\* C11: load_model returns none, and does not raise, when the name or the
\* version directory is absent, "latest" finds no version, the sidecar is
\* absent or the discriminator is not a known class, on whatever store it
\* is called.
C11_AbsentArtifactsLoadNone ==
    LoadCallable =>
        \A n \in Trainable : \A v \in ProbeVersions(n) :
            NoneCase(n, v) => load_model(store, n, v, 0).out = "none"

\* A store that holds a version directory without sidecar (left by a save
\* that failed), one with a sidecar of a class load_model does not know,
\* and a name without any version.
C11_Witness ==
    /\ LoadCallable
    /\ \E n \in Trainable : \E i \in 1..Len(store[n]) :
          store[n][i].meta.state = "absent"
    /\ \E n \in Trainable : \E i \in 1..Len(store[n]) :
          /\ store[n][i].meta.state = "ok"
          /\ store[n][i].meta.model_class = "DriftDetector"
    /\ \E n \in Trainable : Len(store[n]) = 0

\* C12: once save_model(capability, name, V, metrics) returned for a
\* trained capability of any of the three persisted classes,
\* load_model(name, V) returns a loaded capability of the same class whose
\* prediction for a fixed input is the prediction of the saved one.
C12_SaveLoadRoundTrip ==
    \A r \in Reqs :
        req[r].pc \in {"reload", "drift_swap"} =>
            LET k == Head(req[r].chain)
                loaded == load_model(store, k, req[r].version, 0)
            IN  /\ loaded.out = "model"
                /\ loaded.inst.cls = req[r].model.cls
                /\ loaded.inst.is_loaded
                /\ \A input \in {"records", "metrics"} :
                      trained_result(k, loaded.inst, input)
                        = trained_result(k, req[r].model, input)

\* The order of tuples of integers: a comes before b when, at the first
\* place where they differ, a has ended or holds the lesser number.
TupleBefore(a, b) ==
    \E i \in 1..Len(b) :
        /\ \A j \in 1..(i - 1) : j <= Len(a) /\ a[j] = b[j]
        /\ i > Len(a) \/ a[i] < b[i]

\* A version name as the tuple of its components, a component that is
\* not an integer literal counting 0.
Ranked(v) ==
    LET parts == split(v)
    IN  [i \in 1..Len(parts) |->
            IF int_ok(parts[i]) THEN int_of(parts[i]) ELSE 0]

\* A name of dot-separated non-negative integers.
IsNumericName(v) ==
    \A i \in 1..Len(split(v)) :
        /\ split(v)[i] # <<>>
        /\ \A j \in 1..Len(split(v)[i]) : IsDigit(split(v)[i][j])

Listed(n) == {store[n][i].ver : i \in 1..Len(store[n])}

\* C13: for version directories named by dot-separated non-negative
\* integers, get_latest_version returns a listed name that no listed name
\* comes after in the order of integer tuples; without any version
\* directory it returns none.
C13_LatestIsNumericMaximum ==
    \A r \in Reqs :
        req[r].kind = "get_latest_version" =>
            IF Listed(req[r].k) = {} THEN req[r].version = NoVersion
            ELSE (\A v \in Listed(req[r].k) : IsNumericName(v)) =>
                    /\ req[r].version \in Listed(req[r].k)
                    /\ \A v \in Listed(req[r].k) :
                          ~TupleBefore(Ranked(req[r].version), Ranked(v))

\* get_latest_version answered "10.0.0" on a listing that also holds
\* "2.0.0".
C13_Witness ==
    \E r \in Reqs :
        /\ req[r].kind = "get_latest_version"
        /\ req[r].version = V1000
        /\ V200 \in Listed(req[r].k)

\* C14: get_latest_version orders the names by their components, each
\* component that is not an integer literal counting 0 and every other its
\* integer value: no listed name comes after the one it returns.
C14_NonIntegerComponentsRankZero ==
    \A r \in Reqs :
        (req[r].kind = "get_latest_version" /\ Listed(req[r].k) # {}) =>
            \A v \in Listed(req[r].k) :
                ~TupleBefore(Ranked(req[r].version), Ranked(v))

\* C15: the next version is "1.0.0" when there is no version; else the
\* latest version with its final component increased by one and the other
\* components as they are; "1.0.0" when the final component is not an
\* integer.
C15_NextVersionBumpsFinalComponent ==
    \A r \in Reqs :
        req[r].kind = "next_version" =>
            LET latest == get_latest_version(store, req[r].k)
                old == split(latest)
                new == split(req[r].version)
            IN  IF latest = NoVersion THEN req[r].version = V100
                ELSE IF ~int_ok(Last(old)) THEN req[r].version = V100
                ELSE /\ Len(new) = Len(old)
                     /\ \A i \in 1..(Len(old) - 1) : new[i] = old[i]
                     /\ int_ok(Last(new))
                     /\ int_of(Last(new)) = int_of(Last(old)) + 1

\* The next version of "1.0.9" was computed: "1.0.10".
C15_Witness ==
    \E r \in Reqs :
        /\ req[r].kind = "next_version"
        /\ get_latest_version(store, req[r].k) = V109
        /\ req[r].version = <<"1", ".", "0", ".", "1", "0">>

\* C16: when a training run of model name n has persisted version V,
\* get_latest_version(n) returns V.
C16_PersistedVersionIsLatest ==
    \A r \in Reqs :
        req[r].pc \in {"reload", "drift_swap"} =>
            get_latest_version(store, Head(req[r].chain)) = req[r].version

\* C17: a retrain-all request answers with three entries, for
\* compliance-gap, regulatory-predictor and drift-detector in this order,
\* each with status success or failed, and with total_models = 3, whichever
\* of the runs failed.
C17_RetrainAllReportsAllThree ==
    \A r \in Reqs :
        (req[r].kind = "retrain_all" /\ req[r].pc = "done") =>
            LET response == retrain_all_response(req[r])
            IN  /\ response.total_models = 3
                /\ Len(response.results) = 3
                /\ \A i \in 1..3 :
                      /\ response.results[i].model_name = <<CG, RP, DD>>[i]
                      /\ response.results[i].status \in {"success", "failed"}

\* A retrain-all request answered with a failed compliance-gap run and
\* two successful runs after it.
C17_Witness ==
    \E r \in Reqs :
        /\ req[r].kind = "retrain_all"
        /\ req[r].pc = "done"
        /\ retrain_all_response(req[r]).results
             = <<[model_name |-> CG, status |-> "failed"],
                 [model_name |-> RP, status |-> "success"],
                 [model_name |-> DD, status |-> "success"]>>

C19_AllGenerationsBestIsMaximum ==
    /\ [](/\ \A i \in 1..Len(opt.history) :
                opt.history[i].result.generations = GENERATIONS
          /\ opt.call # NoCall =>
                /\ opt.call.generations_run <= GENERATIONS
                /\ opt.call.best_fitness = opt.evaluated
          /\ (opt.call = NoCall /\ opt.history # <<>>) =>
                Last(opt.history).result.fitness_score = opt.evaluated)
    /\ [][(opt.call # NoCall /\ opt'.call # NoCall) =>
             opt'.call.best_fitness >= opt.call.best_fitness]_vars

\* A call has returned after GENERATIONS generations with a best fitness
\* above the one of its first generation.
C19_Witness ==
    /\ opt.call = NoCall
    /\ opt.history # <<>>
    /\ Last(opt.history).result.generations = GENERATIONS
    /\ Last(opt.history).result.fitness_score > opt.first_best
    /\ opt.first_best > NegInf

\* C20: two calls of optimize with the same constraints return the same
\* recommended_config, fitness_score, generations and alternatives, be they
\* made on one instance or on two, and whatever calls came between them.
C20_OptimizeIsDeterministic ==
    \A i, j \in 1..Len(opt.history) :
        opt.history[i].constraints = opt.history[j].constraints =>
            opt.history[i].result = opt.history[j].result

\* Two calls with the same constraints on different instances have
\* returned, with a call of other constraints between them.
C20_Witness ==
    /\ Len(opt.history) >= 3
    /\ opt.history[1].constraints = opt.history[3].constraints
    /\ opt.history[1].on # opt.history[3].on
    /\ opt.history[2].constraints # opt.history[1].constraints
    /\ opt.history[2].on = opt.history[1].on

\* C21: for constraints with max_cpu > 0, max_memory > 0 and agent_count
\* >= 1, the recommended_config that optimize returns fits them:
\* cpu_per_agent * replicas <= max_cpu and memory_per_agent * replicas <=
\* max_memory.
C21_RecommendedIsFeasible ==
    \A i \in 1..Len(opt.history) :
        feasible(opt.history[i].result.recommended_config,
                 opt.history[i].constraints)

\* C22: in a generation whose population holds a candidate that fits the
\* constraints, every survivor (the first half of the next population, from
\* which the parents are chosen) fits them.
C22_NoInfeasibleSurvivor ==
    [][(/\ opt.call # NoCall
        /\ opt'.call # NoCall
        /\ opt'.call.generations_run = opt.call.generations_run + 1
        /\ \E i \in 1..Len(opt.call.population) :
              feasible(opt.call.population[i], opt.call.constraints))
       => \A i \in 1..(POPULATION_SIZE \div 2) :
              feasible(opt'.call.population[i], opt.call.constraints)]_vars

\* C23: every candidate that fits the constraints has a fitness above the
\* -1000 of those that do not, so that the recommended config of a call
\* that evaluated a fitting candidate fits the constraints.
C23_InfeasibleIsDominated ==
    /\ opt.call # NoCall =>
          \A i \in 1..Len(opt.call.population) :
              feasible(opt.call.population[i], opt.call.constraints) =>
                  fitness(opt.call.population[i], opt.call.constraints)
                      > -10000000
    /\ (opt.call = NoCall /\ opt.history # <<>> /\ opt.feasible_seen) =>
          feasible(Last(opt.history).result.recommended_config,
                   Last(opt.history).constraints)

\* C24: optimize returns at most three alternatives, in descending order of
\* fitness, and none of them has the five gene values of the
\* recommended_config.
C24_AlternativesExcludeRecommended ==
    \A i \in 1..Len(opt.history) :
        LET result == opt.history[i].result
            alts == result.alternatives
        IN  /\ Len(alts) <= 3
            /\ \A a, b \in 1..Len(alts) :
                  a < b => alts[a].fitness_score >= alts[b].fitness_score
            /\ \A a \in 1..Len(alts) :
                  alts[a].config # result.recommended_config

\* The two spellings of each kind.
Spellings ==
    [k \in Kinds |->
        CASE k = CG -> {"compliance-gap", "compliance_gap"}
          [] k = RP -> {"regulatory-predictor", "regulatory_predictor"}
          [] k = DD -> {"drift-detector", "drift_detector"}
          [] k = DO -> {"deployment-optimizer", "deployment_optimizer"}
          [] k = MS -> {"market-signal-predictor", "market_signal_predictor"}
          [] k = TC -> {"taxonomy-classifier", "taxonomy_classifier"}]

\* Request r is answered by get_model_metrics in this step.
MetricsStepOf(r) == req[r].pc = "idle" /\ req'[r].kind = "metrics"

\* C25: get_model_metrics(name) answers not found exactly when name is no
\* spelling of one of the six kinds; for a spelling of kind k it answers
\* with the canonical name k and the version, is_loaded and metrics of the
\* instance that is live for k when it is called; it changes neither the
\* live instances nor the store.
C25_MetricsOfLiveInstance ==
    [][\A r \in Reqs : MetricsStepOf(r) =>
          /\ live' = live
          /\ store' = store
          /\ req'[r].resp.status = "not_found" <=>
                \A k \in Kinds : req'[r].k \notin Spellings[k]
          /\ \A k \in Kinds : req'[r].k \in Spellings[k] =>
                /\ req'[r].resp.status = "ok"
                /\ Len(req'[r].report) = 1
                /\ req'[r].report[1].name = k
                /\ req'[r].report[1].version = live[k].version
                /\ req'[r].report[1].is_loaded = live[k].is_loaded
                /\ req'[r].report[1].metrics = live[k].metrics]_vars

\* The metrics of drift-detector were asked for under the underscore
\* spelling and answered while an instance published by a training run was
\* live.
C25_Witness ==
    \E r \in Reqs :
        /\ req[r].kind = "metrics"
        /\ req[r].k = "drift_detector"
        /\ req[r].resp.status = "ok"
        /\ req[r].report[1].is_loaded
        /\ req[r].report[1].metrics > 0
        /\ live[DD] # DefaultLive[DD]

\* C26: the fallback is a function of its input only: any two calls of
\* predict_fallback on the same records return the same result, whatever
\* the days they are made on.
C26_FallbackDependsOnInputOnly ==
    \A i, j \in 1..Len(Instants) :
        (fb.log[i].called /\ fb.log[j].called) =>
            fb.log[i].result = fb.log[j].result

\* The flags of a result with the given gap_type.
FlagsOf(result, gap_type) ==
    {result[i] : i \in {j \in 1..Len(result) : result[j].gap_type = gap_type}}

\* C27: the result of the compliance-gap fallback holds, for a record with
\* a rate below 0.5, a flag of severity critical (below 0.3) or high, and
\* for a record of status non_compliant a flag of severity high; records
\* with a rate of at least 0.7, another status and no last_check_date
\* yield no flag.
C27_FallbackFlagsGaps ==
    \A i \in 1..Len(Instants) : fb.log[i].called =>
        LET result == fb.log[i].result
            records == fb.input
        IN  /\ \A n \in 1..Len(records) :
                  /\ records[n].compliance_rate < 30 =>
                        \E f \in FlagsOf(result, "low_compliance_rate") :
                            /\ f.severity = "critical"
                            /\ f.confidence
                                  = (100 - records[n].compliance_rate) * 100
                  /\ (/\ records[n].compliance_rate >= 30
                      /\ records[n].compliance_rate < 50) =>
                        \E f \in FlagsOf(result, "low_compliance_rate") :
                            /\ f.severity = "high"
                            /\ f.confidence
                                  = (100 - records[n].compliance_rate) * 100
                  /\ records[n].status = "non_compliant" =>
                        \E f \in FlagsOf(result, "non_compliant_status") :
                            f.severity = "high"
            /\ (\A n \in 1..Len(records) :
                  /\ records[n].compliance_rate >= 70
                  /\ records[n].status # "non_compliant"
                  /\ records[n].last_check_date = NoDate)
               => result = <<>>
            /\ \A n \in 1..Len(result) :
                  result[n].gap_type = "low_compliance_rate" =>
                      \E m \in 1..Len(records) :
                          records[m].compliance_rate < 50

\* The fallback was called on a record of rate 0.2 and status
\* non_compliant followed by a record of rate 0.3, and on another day on
\* the same records.
C27_Witness ==
    /\ Len(fb.input) = 2
    /\ fb.input[1].compliance_rate = 20
    /\ fb.input[1].status = "non_compliant"
    /\ fb.input[2].compliance_rate = 30
    /\ fb.input[2].status = "compliant"
    /\ fb.log[1].called
    /\ fb.log[3].called
    /\ Len(fb.log[1].result) >= 3

\* C28: once hydration or a hot-swap has published the instance loaded
\* from artifact version V of a kind, whose sidecar holds the metrics M,
\* the reports read V and M off the live instance: health_check and
\* get_model_metrics give version V, get_model_metrics gives metrics M, and
\* the model_version of a predict response, which is the version of the
\* live instance, is V.
C28_LiveStatusMatchesArtifact ==
    \A k \in Trainable :
        live[k].made_by = "load_model" =>
            LET V == live[k].made_from
                M == store[k][dir_index(store, k, V)].meta.metrics
                entry == get_model_metrics(live, k).entries[1]
            IN  /\ \E i \in 1..6 :
                      /\ health_check(live)[i].name = k
                      /\ health_check(live)[i].version = V
                /\ entry.version = V
                /\ entry.metrics = M
                /\ live[k].version = V

\* A training run is in progress in slot t: its handler has started and
\* has not yet made its response.
TrainingInProgress(t) ==
    /\ req[t].kind \in {"train", "retrain_all"}
    /\ req[t].pc \notin {"idle", "done"}

\* C29: training does not block inference: while a training run is in
\* progress, at its train, persist and hot-swap steps as well as at its
\* extraction, the handler of a predict request that arrives can start,
\* and so be served by the instance that is live at that moment.
C29_TrainingDoesNotBlockInference ==
    \A t \in Reqs :
        (TrainingInProgress(t) /\ \E r \in Reqs : req[r].pc = "idle") =>
            \E r \in Reqs : ENABLED PredictBegin(r, CG, "records")

\* save_model of a new version of name is in progress.
Writing(name) == req[1].kind = "save_model" /\ req[1].k = name

\* The versions a reader may be given while the version of the save in
\* progress is written: the latest of the others, and the new one once its
\* directory is complete.
Acceptable(name) ==
    LET others == [store EXCEPT ![name] =
                      SelectSeq(@, LAMBDA d : d.ver # req[1].version)]
    IN  {get_latest_version(others, name)}
            \cup (IF req[1].pc = SaveSteps[Len(SaveSteps)]
                  THEN {req[1].version} ELSE {})

\* C30: a read made while save_model writes a new version of a name that
\* has a complete earlier version gives the previous latest artifact or
\* the complete new one: get_latest_version names one of the two,
\* load_model(name, "latest") returns the instance of one of the two and
\* not None, and list_models returns for the name one of the two with its
\* metrics.
C30_ReaderNeverSeesHalfWrittenVersion ==
    [][\A name \in {CG, RP} :
          (Writing(name) /\ req'[2] # req[2]) =>
              /\ (req'[2].kind = "get_latest_version" /\ req'[2].k = name) =>
                    req'[2].version \in Acceptable(name)
              /\ (req'[2].kind = "load_model" /\ req'[2].k = name) =>
                    /\ req'[2].resp.status = "model"
                    /\ req'[2].model.made_from \in Acceptable(name)
              /\ req'[2].kind = "list_models" =>
                    /\ req'[2].resp.status = "ok"
                    /\ \E i \in 1..Len(req'[2].report) :
                          /\ req'[2].report[i].name = name
                          /\ req'[2].report[i].version \in Acceptable(name)
                          /\ req'[2].report[i].metrics # -1]_vars

\* C31: list_models returns one entry for every model name that has a
\* version directory and none for the other names; the entry lists all the
\* version directories of the name, its latest_version is a listed name
\* whose comparator key no listed name exceeds, and its metrics are those
\* of the sidecar of that version.
C31_ListModelsEnumeratesStore ==
    [][\A r \in Reqs :
          (req[r].pc = "idle" /\ req'[r].kind = "list") =>
              LET entries == req'[r].report
                  named == {n \in Trainable : Len(store[n]) > 0}
              IN  /\ req'[r].resp.status = "ok"
                  /\ Len(entries) = Cardinality(named)
                  /\ \A n \in named :
                        \E i \in 1..Len(entries) :
                            LET e == entries[i]
                            IN  /\ e.name = n
                                /\ Len(e.versions) = Len(store[n])
                                /\ {e.versions[j] : j \in 1..Len(e.versions)}
                                      = Listed(n)
                                /\ e.version \in Listed(n)
                                /\ \A v \in Listed(n) :
                                      ~tuple_less(version_key(e.version),
                                                  version_key(v))
                                /\ LET meta == store[n][dir_index(store, n,
                                                   e.version)].meta
                                   IN  meta.state = "ok" =>
                                           e.metrics = meta.metrics]_vars

\* C32: each of the six kinds always has a live instance of its class,
\* whose learner is there when it is loaded; the three kinds that are not
\* trained are always loaded; and no step takes the live instance of a
\* trainable kind from loaded to not loaded.
C32_LoadedStaysLoaded ==
    /\ [](\A k \in Kinds :
            /\ live[k].cls = ClassOf(k)
            /\ k \notin Trainable => live[k].is_loaded
            /\ (k \in Trainable /\ live[k].is_loaded) =>
                   live[k].model \notin {0, -1})
    /\ [][\A k \in Trainable : live[k].is_loaded => live'[k].is_loaded]_vars

\* A kind whose live instance was loaded at startup has been trained
\* twice since, the first run published and the second failed, and its
\* live instance is loaded.
C32_Witness ==
    \E r \in Reqs, k \in {CG, RP} :
        /\ live[k].is_loaded
        /\ live[k].made_by = "load_model"
        /\ live[k].made_from = V101
        /\ Len(store[k]) >= 2
        /\ Len(req[r].results) = 1
        /\ req[r].results[1].model_name = k
        /\ req[r].results[1].status = "failed"

\* The values a gene is drawn from under constraints c; for the two
\* per-agent genes, the values between the ends of the range.
InDomain(gene, value, c) ==
    LET agents == IF c.agent_count >= 1 THEN c.agent_count ELSE 1
        between(x, a, b) == (a <= x /\ x <= b) \/ (b <= x /\ x <= a)
    IN  CASE gene = "cpu_per_agent" ->
               between(value, 25, c.max_cpu \div agents)
          [] gene = "memory_per_agent" ->
               between(value, 256, c.max_memory \div agents)
          [] gene = "replicas" -> value \in 1..agents
          [] gene = "batch_size" -> value \in {8, 16, 32, 64}
          [] gene = "concurrency" -> value \in 1..10

\* How many times config x occurs in the sequence pop.
Occurrences(x, pop) == Cardinality({i \in 1..Len(pop) : pop[i] = x})

\* C33: at the start of every generation and in the final population
\* there are exactly 50 candidates, with replicas in 1..max(agent_count, 1),
\* batch_size in {8, 16, 32, 64} and concurrency in 1..10; a pass of the
\* loop carries 25 candidates of the population over as they are, none
\* less fit than a candidate left behind, and each of the 25 others has
\* two parents among them such that each of its genes is the gene of one
\* of the two or a value of the gene's domain.
C33_PopulationKeepsShape ==
    /\ [](opt.call # NoCall =>
            /\ Len(opt.call.population) = 50
            /\ \A i \in 1..Len(opt.call.population) :
                  \A gene \in {"replicas", "batch_size", "concurrency"} :
                      InDomain(gene, opt.call.population[i][gene],
                               opt.call.constraints))
    /\ [][(/\ opt.call # NoCall
           /\ opt'.call # NoCall
           /\ opt'.call.generations_run = opt.call.generations_run + 1) =>
            LET c == opt.call.constraints
                before == opt.call.population
                kept == SubSeq(opt'.call.population, 1, 25)
                bred == SubSeq(opt'.call.population, 26, 50)
                carried == {kept[i] : i \in 1..25}
                scores == {fitness(x, c) : x \in carried}
            IN  /\ \A x \in carried :
                      Occurrences(x, kept) <= Occurrences(x, before)
                /\ \A x \in {before[j] : j \in 1..Len(before)} :
                      Occurrences(x, kept) < Occurrences(x, before) =>
                          LET left_behind == fitness(x, c)
                          IN  \A score \in scores : left_behind <= score
                /\ \A i \in 1..25 :
                      \E p1 \in 1..25, p2 \in 1..25 :
                          \A g \in 1..Len(Genes) :
                              \/ InDomain(Genes[g], bred[i][Genes[g]], c)
                              \/ bred[i][Genes[g]] = kept[p1][Genes[g]]
                              \/ bred[i][Genes[g]] = kept[p2][Genes[g]]]_vars

\* The loop of a call under the scarce constraints has made its last
\* pass, and the final population holds a child that is none of the
\* candidates carried over.
C33_Witness ==
    /\ opt.call # NoCall
    /\ opt.call.constraints = ScarceConstraints
    /\ opt.call.generations_run = GENERATIONS
    /\ \E i \in 26..50 :
          \A j \in 1..25 : opt.call.population[i] # opt.call.population[j]

\* C34: the fitness_score optimize returns is the fitness of the
\* recommended_config it returns, under the constraints of the call.
C34_ScoreIsFitnessOfRecommended ==
    \A i \in 1..Len(opt.history) :
        LET h == opt.history[i]
        IN  h.result.fitness_score
                = fitness(h.result.recommended_config, h.constraints)

\* A call has returned whose best fitness was raised after the first
\* generation, so that its best-ever candidate was recorded while later
\* generations were still to be bred.
C34_Witness ==
    /\ opt.call = NoCall
    /\ Len(opt.history) > 0
    /\ opt.first_best > NegInf
    /\ opt.first_best < opt.history[Len(opt.history)].result.fitness_score

\* C35: no alternative optimize returns has a fitness_score above the
\* fitness_score it reports for the recommended config.
C35_NoAlternativeBeatsRecommended ==
    \A i \in 1..Len(opt.history) :
        LET result == opt.history[i].result
        IN  \A a \in 1..Len(result.alternatives) :
                result.alternatives[a].fitness_score <= result.fitness_score

\* C36: while every version directory of a kind is named by dot-separated
\* non-negative integers, a training run of the kind, whatever other runs
\* of the kind are suspended at their extraction or have finished, persists
\* under a version that names no directory of the store, those of the
\* other runs included: it makes exactly one directory and leaves every
\* existing one as it was.
PersistsVersion(r, n) ==
    /\ req[r].pc \in {"persist", "drift_persist"}
    /\ Head(req[r].chain) = n
    /\ store'[n] # store[n]

C36_OverlappingRunsPersistDistinctVersions ==
    [][\A n \in Trainable :
          (store'[n] # store[n] /\ \A v \in Listed(n) : IsNumericName(v)) =>
              /\ \A i \in 1..Len(store[n]) :
                    \E j \in 1..Len(store'[n]) : store'[n][j] = store[n][i]
              /\ Len(store'[n]) = Len(store[n]) + 1
              /\ \E r \in Reqs : PersistsVersion(r, n)
              /\ \A r \in Reqs :
                    PersistsVersion(r, n) =>
                        LET version == next_version(get_latest_version(store, n))
                        IN  /\ version \notin Listed(n)
                            /\ dir_index(store', n, version) # 0]_vars

\* Two runs of one kind in flight on a numeric store: one has persisted
\* its version, into a directory made after another run's, and the other,
\* suspended at its extraction since before, has still to compute its own.
C36_Witness ==
    \E n \in {CG, RP} : \E r, q \in Reqs :
        /\ \A v \in Listed(n) : IsNumericName(v)
        /\ r # q
        /\ req[r].pc = "reload" /\ Head(req[r].chain) = n
        /\ req[q].pc = "extract" /\ Head(req[q].chain) = n
        /\ dir_index(store, n, req[r].version) # 0
        /\ Len(store[n]) >= 2

\* C37: whenever a run of compliance-gap (regulatory-predictor) ends in
\* success, whatever train and retrain-all requests overlap it, the live
\* instance of the kind is the one load_model made from the version
\* get_latest_version reports for the store: the hot-swap of a run never
\* follows the persisting of a later version, and so the live instance
\* after the last of the runs is the latest.
C37_LiveIsLatestAfterConcurrentRuns ==
    [][\A n \in {CG, RP} : \A r \in Reqs :
          (RecordsSuccess(r) /\ Last(req'[r].results).model_name = n) =>
              /\ live'[n].made_by = "load_model"
              /\ live'[n].made_from = get_latest_version(store', n)]_vars

\* C38: whatever the store holds, the latest_version of every entry that
\* list_models returns is the name get_latest_version returns for the
\* entry's name, also when two version names have the same key.
C38_ListedLatestIsGetLatest ==
    \A r \in Reqs :
        (req[r].kind = "list_models" /\ req[r].resp.status = "ok") =>
            \A i \in 1..Len(req[r].report) :
                req[r].report[i].version
                    = get_latest_version(store, req[r].report[i].name)

\* C39: an instance that load_model returns, whatever save_model has put
\* into the store, has is_loaded true and holds a trained learner.
C39_LoadedInstanceIsUsable ==
    (req[2].kind = "load_model" /\ req[2].resp.status = "model") =>
        /\ req[2].model.is_loaded
        /\ req[2].model.model \notin {0, -1}

\* The category a regulation belongs to: the one given when it is a key of
\* the taxonomy, else the first category of the taxonomy with a keyword
\* inside the lower-cased "title description", else "general".
BelongsTo(reg, label) ==
    LET keys == {TAXONOMY_KEYWORDS[c].cat : c \in 1..Len(TAXONOMY_KEYWORDS)}
        text == text_of(reg)
        has(c) == \E k \in 1..Len(TAXONOMY_KEYWORDS[c].keywords) :
                      contains(TAXONOMY_KEYWORDS[c].keywords[k], text)
    IN  IF reg.category \in keys THEN label = reg.category
        ELSE \/ \E c \in 1..Len(TAXONOMY_KEYWORDS) :
                  /\ label = TAXONOMY_KEYWORDS[c].cat
                  /\ has(c)
                  /\ \A d \in 1..(c - 1) : ~has(d)
             \/ /\ label = "general"
                /\ \A c \in 1..Len(TAXONOMY_KEYWORDS) : ~has(c)

\* C40: the clusters the keyword fallback returns partition the input.
\* There is a way to hand every regulation of the input to one cluster,
\* the one labelled with the category it belongs to, such that every
\* cluster lists, by id and title and in the order of the input, exactly
\* the regulations handed to it; the labels are distinct, no cluster is
\* empty, total_clusters is the number of clusters, and no regulations
\* give no clusters.
C40_FallbackPartitionsInput ==
    fb.called =>
        LET clusters == fb.result.clusters
            n == Len(fb.input)
        IN  /\ fb.result.total_clusters = Len(clusters)
            /\ fb.result.method = "keyword_fallback"
            /\ n = 0 => clusters = <<>>
            /\ \A i \in 1..Len(clusters) :
                  /\ clusters[i].regulations # <<>>
                  /\ \A j \in 1..Len(clusters) :
                        clusters[i].label = clusters[j].label => i = j
            /\ \E home \in [1..n -> 1..Len(clusters)] :
                  /\ \A r \in 1..n :
                        BelongsTo(fb.input[r], clusters[home[r]].label)
                  /\ \A i \in 1..Len(clusters) :
                        LET mine == SelectSeq([r \in 1..n |-> r],
                                        LAMBDA r : home[r] = i)
                        IN  clusters[i].regulations =
                                [j \in 1..Len(mine) |->
                                    [id |-> fb.input[mine[j]].id,
                                     title |-> fb.input[mine[j]].title]]

\* A call on two regulations that differ in case from the keywords: one
\* goes by the category given although its text holds a keyword of
\* another category, the other, given no category, by a keyword.
C40_Witness ==
    /\ fb.called
    /\ Len(fb.input) = 2
    /\ Len(fb.result.clusters) = 2
    /\ \E r \in 1..2 :
          /\ fb.input[r].category = "healthcare"
          /\ contains(<<"g", "d", "p", "r">>, text_of(fb.input[r]))
    /\ \E r \in 1..2 :
          /\ fb.input[r].category = ""
          /\ contains(<<"s", "e", "c">>, text_of(fb.input[r]))

====
